---- MODULE Spec2Model ----
(***************************************************************************)
(* A model of koshi-vox's installer (scripts/install.js): the installation *)
(* log (class InstallationLog), and the provisioning pipeline main() that  *)
(* drives it.                                                              *)
(*                                                                         *)
(* Timestamps are logical: `now` is the clock, a natural number that grows *)
(* by one each time the code reads the date; toISOString/new Date(...) is  *)
(* order preserving on the stamps the program writes, so a stamp is        *)
(* modelled by its position in time.                                       *)
(***************************************************************************)
EXTENDS Integers, Sequences, FiniteSets, TLC

VARIABLES
  file,       \* the persisted installation file (INSTALL_LOG_PATH)
  log,        \* installLog.log, the in-memory record
  now,        \* the clock
  pc,         \* the program point of the process
  mode,       \* "api": the log's methods are called directly; "main": main() runs
  calls,      \* number of direct method calls made so far (mode "api")
  fails,      \* number of writes of the file that failed so far
  loaded,     \* history: the record as the constructor left it
  loadResult, \* history: how the constructor's load() ended
  lastGood,   \* history: the file as the last successful write left it
  lastWrite,  \* history: outcome of the last write ("none" before any)
  platform,   \* process.platform
  prog,       \* the variables of main() and of the functions it calls
  env,        \* the file system: environment directory, font cache, scratch
              \* directories, shell profile and its backup
  env0,       \* history: env when the process started
  inflight,   \* the external operations started and not yet settled
  did,        \* history: the operations this process has started
  lastStage,  \* history: stage of the operation started last
  faulty,     \* the stages in which the environment has failed so far
  exitCode,   \* -1 while the process runs, then its exit code
  why,        \* history: what ended the process
  run,        \* number of the current process
  after1,     \* history: the file as the first process left it
  file0,      \* history: the file as the constructor left it (mode "main")
  budget,     \* number of stages in which the environment may fail
  dl,         \* the downloadFile call of the font being installed
  procs,      \* two orchestrator processes sharing the installation file:
              \* each one's program point and in-memory record
  bump        \* a run of scripts/update-version.js: its argument, program
              \* point, exit code, messages and the files it has touched

pipeVars == <<platform, prog, env, env0, inflight, did, lastStage, faulty,
              exitCode, why, run, after1, file0, budget, dl, procs, bump>>

vars == <<file, log, now, pc, mode, calls, fails, loaded, loadResult,
          lastGood, lastWrite, platform, prog, env, env0, inflight, did,
          lastStage, faulty, exitCode, why, run, after1, file0, budget, dl,
          procs, bump>>

---------------------------------------------------------------------------
(* Bounds of the model.                                                    *)

MaxEntries == 3        \* longest collection in an initial persisted record
MaxStamp == 2          \* initial records carry stamps 1..MaxStamp
MaxCalls == 2          \* direct calls and relaunches per behaviour (mode "api")
MaxSaveFailures == 1   \* failed writes per behaviour
NumPkgs == 2           \* the installer's first NumPkgs packages are installed
MaxFaultyStages == 1   \* stages of one behaviour in which the environment fails
MaxRuns == 2           \* processes per behaviour when the installer is re-run
MaxRedirects == 3      \* redirects followed by one downloadFile call

---------------------------------------------------------------------------
(* The installation record.                                                *)

\* Names used for packages and fonts in direct calls and initial records.
PkgNames == {"soundfile", "constructor"}
FontNames == {"3270 Nerd Font", "Departure Mono"}

\* The version (or path) an initial record carries at position i: each
\* entry of an initial record can be told from the others.
Tag(i) == CASE i = 1 -> "v1" [] i = 2 -> "v2" [] i = 3 -> "v3" [] OTHER -> "v4"

\* The scalar components of the constructor's default record.
DefaultComps ==
  [ homebrew    |-> [installed |-> FALSE, path |-> "null"],
    python      |-> [installed |-> FALSE, version |-> "null", path |-> "null"],
    virtualEnv  |-> [installed |-> FALSE, path |-> "null"],
    npmPackage  |-> [installed |-> FALSE, version |-> "null", prefix |-> "null"],
    shellConfig |-> [modified |-> FALSE, backupPath |-> <<>>] ]

\* The record the constructor builds at time t.  hasComps, hasPkgs and
\* hasFonts say whether the JSON value has a components object and the two
\* collections in it; they are all TRUE for any record the program builds.
DefaultLog(t) ==
  [ hasComps |-> TRUE, hasPkgs |-> TRUE, hasFonts |-> TRUE,
    installedAt |-> t,
    pythonPackages |-> <<>>,
    fonts |-> <<>>,
    comps |-> DefaultComps ]

\* A collection entry: {name, version, installedAt} / {name, path, installedAt}
\* (the second field is called ver for both collections).
Entry(n, v, t) == [name |-> n, ver |-> v, installedAt |-> t]

Names(s) == {s[i].name : i \in 1..Len(s)}

NoDuplicates(s) == \A i, j \in 1..Len(s) : s[i].name = s[j].name => i = j

---------------------------------------------------------------------------
(* The persisted file.                                                     *)

NoFile == [kind |-> "absent", rec |-> DefaultLog(0)]
\* A file that is not JSON (an empty or truncated file included).
BadFile == [kind |-> "invalid", rec |-> DefaultLog(0)]

\* JSON.stringify(this.log, null, 2): the text of a whole record.
Serialize(l) == [kind |-> "json", rec |-> l]

\* fs.writeFileSync opens the file with flag 'w', which truncates it, and
\* then writes the text.  A write that fails before the open leaves the file
\* untouched; a write that fails or is interrupted after it leaves a strict
\* prefix of the text, which is not JSON.
WriteOutcomes == {"ok", "untouched", "partial"}

WriteFile(f, l, outcome) ==
  CASE outcome = "ok" -> Serialize(l)
    [] outcome = "untouched" -> f
    [] OTHER -> BadFile

\* save(): the write, with its failure swallowed (a warning is printed).
\* o is the outcome of the write.
CanWrite(o) == o = "ok" \/ fails < MaxSaveFailures

save(l, o) ==
  /\ CanWrite(o)
  /\ file' = WriteFile(file, l, o)
  /\ lastGood' = IF o = "ok" THEN Serialize(l) ELSE lastGood
  /\ lastWrite' = o
  /\ fails' = IF o = "ok" THEN fails ELSE fails + 1

NoSave == UNCHANGED <<file, lastGood, lastWrite, fails>>

\* The environment fails in at most MaxFaultyStages stages of a behaviour.
FaultAllowed(stage) ==
  stage \in faulty \/ Cardinality(faulty) < budget

\* b: the environment failed in this step of the stage.
Fault(stage, b) ==
  /\ b => FaultAllowed(stage)
  /\ faulty' = IF b THEN faulty \cup {stage} ELSE faulty

---------------------------------------------------------------------------
(* cleanupDuplicates                                                       *)

\* uniquePackages[pkg.name] = pkg when the name is new or pkg is strictly
\* later than the entry kept so far.  acc lists the values of the object in
\* key order (the order in which the names were first inserted).
\* The object is a plain {}: for a name that every object inherits from
\* Object.prototype, uniquePackages[pkg.name] is not undefined before any
\* entry is stored, and the comparison with the Invalid Date made of its
\* missing installedAt is false, so the entry is not stored.
ObjectPrototypeKeys ==
  {"constructor", "toString", "valueOf", "hasOwnProperty", "__proto__"}

KeepLater(acc, e) ==
  IF \E k \in 1..Len(acc) : acc[k].name = e.name
  THEN LET k == CHOOSE k \in 1..Len(acc) : acc[k].name = e.name
       IN IF e.installedAt > acc[k].installedAt
          THEN [acc EXCEPT ![k] = e]
          ELSE acc
  ELSE IF e.name \in ObjectPrototypeKeys THEN acc
  ELSE Append(acc, e)

RECURSIVE UniqueFrom(_, _, _)
UniqueFrom(s, i, acc) ==
  IF i > Len(s) THEN acc ELSE UniqueFrom(s, i + 1, KeepLater(acc, s[i]))

\* A reconciliation that removes nothing.
UniqueKeepAll(s) == s

\* Object.values(unique) after the forEach over s.
Unique(s) == UniqueFrom(s, 1, <<>>)

\* Whether cleanupDuplicates runs to its end on record l (it raises a
\* TypeError at the first collection that is missing).
Reconciles(l) == l.hasComps /\ l.hasPkgs /\ l.hasFonts

\* A variant that leaves the root timestamp as it was read.
cleanupKeepsStamp(l, t) ==
  [l EXCEPT !.pythonPackages = Unique(@),
            !.fonts = Unique(@)]

\* The record cleanupDuplicates leaves at time t, when it runs to its end.
cleanupDuplicates(l, t) ==
  [l EXCEPT !.pythonPackages = Unique(@),
            !.fonts = Unique(@),
            !.installedAt = t]

\* The record a cleanupDuplicates that raised leaves: the packages are
\* already replaced when the fonts turn out to be missing.
cleanupAborted(l) ==
  IF l.hasComps /\ l.hasPkgs
  THEN [l EXCEPT !.pythonPackages = Unique(@)]
  ELSE l

---------------------------------------------------------------------------
(* load, as run by the constructor                                         *)

\* Whether load() reads, parses and reconciles the file.
LoadSucceeds(f) == f.kind = "json" /\ Reconciles(f.rec)

\* this.log after load(), for a constructor started at time t: the parsed
\* value is assigned to this.log before cleanupDuplicates runs.
LoadedLog(f, t) ==
  CASE f.kind # "json" -> DefaultLog(t)
    [] Reconciles(f.rec) -> cleanupDuplicates(f.rec, t + 1)
    [] OTHER -> cleanupAborted(f.rec)

\* How load() ends: there was no file, JSON.parse raised, cleanupDuplicates
\* raised, or the record was reconciled.
LoadResult(f) ==
  CASE f.kind = "absent" -> "nofile"
    [] f.kind = "invalid" -> "unparsed"
    [] Reconciles(f.rec) -> "ok"
    [] OTHER -> "aborted"

---------------------------------------------------------------------------
(* addPythonPackage, addFont, setComponent                                 *)

\* findIndex: the first index whose entry has the name, 0 for JavaScript's -1.
FindIndex(s, n) ==
  IF \E i \in 1..Len(s) : s[i].name = n
  THEN CHOOSE i \in 1..Len(s) :
         s[i].name = n /\ \A j \in 1..(i - 1) : s[j].name # n
  ELSE 0

\* An addition that never looks for the name.
UpsertAlwaysPush(s, e) == Append(s, e)

\* An addition that drops the entries of the name and pushes the new one.
UpsertMoveToEnd(s, e) == Append(SelectSeq(s, LAMBDA x : x.name # e.name), e)

\* The entry of that name is replaced in place, a new name is pushed.
Upsert(s, e) ==
  LET i == FindIndex(s, e.name)
  IN IF i > 0 THEN [s EXCEPT ![i] = e] ELSE Append(s, e)

\* The calls raise a TypeError, before changing anything, when the record
\* has no such collection.
CanAddPackage(l) == l.hasComps /\ l.hasPkgs
CanAddFont(l) == l.hasComps /\ l.hasFonts
CanSetComponent(l) == l.hasComps

addPythonPackage(l, name, version, t) ==
  [l EXCEPT !.pythonPackages = Upsert(@, Entry(name, version, t))]

addFont(l, name, path, t) ==
  [l EXCEPT !.fonts = Upsert(@, Entry(name, path, t))]

\* A variant in which the data replace the component.
MergeReplace(old, data) == data

\* { ...old, ...data }
Merge(old, data) ==
  [f \in DOMAIN old \cup DOMAIN data |->
     IF f \in DOMAIN data THEN data[f] ELSE old[f]]

setComponent(l, c, data) ==
  [l EXCEPT !.comps =
     [k \in DOMAIN l.comps \cup {c} |->
        IF k = c
        THEN IF c \in DOMAIN l.comps THEN Merge(l.comps[c], data) ELSE data
        ELSE l.comps[k]]]

---------------------------------------------------------------------------
(* Initial persisted files.                                                *)

Stamps == 1..MaxStamp

\* Collections of up to n entries over the names N.
RECURSIVE Collections(_, _)
Collections(N, n) ==
  IF n = 0 THEN {<<>>}
  ELSE LET shorter == Collections(N, n - 1)
       IN shorter \cup
          {Append(s, Entry(nm, Tag(Len(s) + 1), t)) :
             s \in {x \in shorter : Len(x) = n - 1}, nm \in N, t \in Stamps}

\* Well-formed records of earlier runs, duplicates included: one collection
\* is long, the other has at most one entry.
WellFormedRecs ==
  {[DefaultLog(1) EXCEPT !.pythonPackages = p] :
     p \in Collections(PkgNames, MaxEntries)}
  \cup
  {[DefaultLog(1) EXCEPT !.fonts = f] :
     f \in Collections(FontNames, MaxEntries)}
  \cup
  {[DefaultLog(1) EXCEPT !.pythonPackages = p, !.fonts = f] :
     p \in Collections(PkgNames, 2), f \in Collections(FontNames, 1)}

\* JSON values that are not installation records: no components object, or
\* a components object without one of the collections.
MalformedRecs ==
  {[r EXCEPT !.hasComps = FALSE, !.hasPkgs = FALSE, !.hasFonts = FALSE,
             !.pythonPackages = <<>>, !.fonts = <<>>] : r \in {DefaultLog(1)}}
  \cup
  {[DefaultLog(1) EXCEPT !.hasPkgs = FALSE, !.fonts = f] :
     f \in Collections(FontNames, 2)}
  \cup
  {[DefaultLog(1) EXCEPT !.hasFonts = FALSE, !.pythonPackages = p] :
     p \in Collections(PkgNames, 2)}

InitFiles ==
  {NoFile, BadFile} \cup {Serialize(r) : r \in WellFormedRecs \cup MalformedRecs}

---------------------------------------------------------------------------
(* The process: construction of installLog at module load.                 *)

\* const installLog = new InstallationLog()
Construct ==
  /\ pc = "boot"
  /\ log' = LoadedLog(file, now)
  /\ loaded' = LoadedLog(file, now)
  /\ loadResult' = LoadResult(file)
  /\ now' = now + 2
  /\ IF LoadSucceeds(file)
     THEN \E o \in WriteOutcomes :
            /\ save(cleanupDuplicates(file.rec, now + 1), o)
            /\ Fault("load", mode = "main" /\ o # "ok")
     ELSE NoSave /\ UNCHANGED faulty
  /\ pc' = IF mode = "api" THEN "api" ELSE "main"
  /\ env0' = env
  /\ file0' = IF mode = "main" THEN file' ELSE file0
  /\ UNCHANGED <<mode, calls, platform, prog, env, inflight, did, lastStage,
                 exitCode, why, run, after1, budget, dl, procs, bump>>

---------------------------------------------------------------------------
(* Direct calls of the log's methods (mode "api").                         *)

ApiVersions == {"2.0"}
ApiPaths == {"cache/a.ttf"}

\* The components and data the installer passes to setComponent, and a
\* status for python that names only some of the component's fields.
ApiComponentData ==
  [ virtualEnv  |-> [installed |-> TRUE, path |-> "venv"],
    whisperModel |-> [model |-> "base", size |-> "74MB", downloaded |-> TRUE,
                      installedAt |-> now],
    python      |-> [installed |-> TRUE, version |-> "3.11"] ]

ApiAddPythonPackage ==
  /\ pc = "api" /\ calls < MaxCalls
  /\ CanAddPackage(log)
  /\ \E n \in PkgNames, v \in ApiVersions, o \in WriteOutcomes :
       /\ log' = addPythonPackage(log, n, v, now)
       /\ save(addPythonPackage(log, n, v, now), o)
  /\ now' = now + 1
  /\ calls' = calls + 1
  /\ UNCHANGED <<pc, mode, loaded, loadResult>>
  /\ UNCHANGED pipeVars

ApiAddFont ==
  /\ pc = "api" /\ calls < MaxCalls
  /\ CanAddFont(log)
  /\ \E n \in FontNames, p \in ApiPaths, o \in WriteOutcomes :
       /\ log' = addFont(log, n, p, now)
       /\ save(addFont(log, n, p, now), o)
  /\ now' = now + 1
  /\ calls' = calls + 1
  /\ UNCHANGED <<pc, mode, loaded, loadResult>>
  /\ UNCHANGED pipeVars

ApiSetComponent ==
  /\ pc = "api" /\ calls < MaxCalls
  /\ CanSetComponent(log)
  /\ \E c \in DOMAIN ApiComponentData, o \in WriteOutcomes :
       /\ log' = setComponent(log, c, ApiComponentData[c])
       /\ save(setComponent(log, c, ApiComponentData[c]), o)
  /\ now' = now + 1
  /\ calls' = calls + 1
  /\ UNCHANGED <<pc, mode, loaded, loadResult>>
  /\ UNCHANGED pipeVars

\* The process ends and the installer is started again.
ApiRelaunch ==
  /\ pc = "api" /\ calls < MaxCalls
  /\ pc' = "boot"
  /\ calls' = calls + 1
  /\ log' = DefaultLog(0)
  /\ loaded' = DefaultLog(0)
  /\ loadResult' = "none"
  /\ UNCHANGED <<mode, file, now, lastGood, lastWrite, fails>>
  /\ UNCHANGED pipeVars


---------------------------------------------------------------------------
(* The installer: main() and the stages it awaits in turn.                 *)

PYTHON_COMMANDS == <<"python3.11", "python3", "python">>

PACKAGES == <<"faster-whisper", "soundfile", "librosa", "fastapi", "uvicorn">>

\* this.packages, cut to the model's bound.
Packages == SubSeq(PACKAGES, 1, IF NumPkgs < Len(PACKAGES) THEN NumPkgs ELSE Len(PACKAGES))

FONTS == <<"3270 Nerd Font", "Departure Mono">>

\* The stages of main(), in the order of its awaits.
Stages ==
  <<"runtime", "venv", "fonts", "deps", "model", "shell", "registration", "alias">>

StageIdx(s) == CHOOSE k \in 1..Len(Stages) : Stages[k] = s

\* An operation of a stage: an external command, download or extraction, or
\* an access to the file system.
Op(stage, cmd, arg) == [stage |-> stage, cmd |-> cmd, arg |-> arg]

\* The variables of the program before main() runs.
Prog0 ==
  [ pythonCmd |-> "null", hasHomebrew |-> FALSE, venvPython |-> "null",
    i |-> 0, installed |-> <<>>, failed |-> <<>>, attempted |-> <<>>,
    npmInstalled |-> FALSE, voxFound |-> FALSE, cwd |-> "orig",
    banner |-> "none", probed |-> [kind |-> "none", major |-> 0, minor |-> 0],
    qualified |-> FALSE, regularFont |-> "unset", timers |-> {} ]

\* What `cmd --version` can answer: the command fails, prints no version that
\* parses, or prints major.minor.
ProbeResults ==
  {[kind |-> k, major |-> 0, minor |-> 0] : k \in {"fail", "garbled"}}
  \cup
  {[kind |-> "version", major |-> v[1], minor |-> v[2]] :
     v \in {<<2, 7>>, <<3, 7>>, <<3, 8>>, <<3, 11>>, <<4, 0>>}}

\* major.minor is at least 3.8 in version order.
AtLeast38(r) == r.major > 3 \/ (r.major = 3 /\ r.minor >= 8)

\* A variant that accepts whatever version is reported.
AcceptsAnyVersion(r) == r.kind = "version"

\* parseInt(major) >= 3 && parseInt(minor) >= 8
Accepts(r) == r.kind = "version" /\ r.major >= 3 /\ r.minor >= 8

\* A variant that installs the runtime without looking for Homebrew.
ProvisionUnchecked(p) == IF p = "darwin" THEN "brewupdate" ELSE "return null"

\* ensurePython, no candidate accepted: Homebrew on darwin, else return null.
ProvisionOrGiveUp(p) == IF p = "darwin" THEN "brewcheck" ELSE "return null"

\* A main() that goes on whatever ensurePython returned.
MainAfterPythonNoCheck(cmd) == "venv"

\* main: if (!pythonCmd) process.exit(1)
MainAfterPython(cmd) == IF cmd = "null" THEN "exit" ELSE "venv"

\* A main() that goes on whatever setupVirtualEnvironment returned.
MainAfterVenvNoCheck(v) == "font"

\* main: if (!venvPython) process.exit(1)
MainAfterVenv(v) == IF v = "null" THEN "exit" ELSE "font"

\* An installFonts that does not look at the cache.
NeedsFetchAlways(c) == TRUE

\* installFonts: if (fs.existsSync(fontPath)) continue
NeedsFetch(c) == c = "absent"

\* The operation the program awaits at each program point.
CommandAt ==
  CASE pc = "probe"       -> Op("runtime", "--version", prog.i)
    [] pc = "brewcheck"   -> Op("runtime", "brew --version", 0)
    [] pc = "brewinstall" -> Op("runtime", "install homebrew", 0)
    [] pc = "brewupdate"  -> Op("runtime", "brew update", 0)
    [] pc = "brewpython"  -> Op("runtime", "brew install python", 0)
    [] pc = "brewlink"    -> Op("runtime", "brew link python", 0)
    [] pc = "pip"         -> Op("runtime", "pip --version", 0)
    [] pc = "ensurepip"   -> Op("runtime", "ensurepip", 0)
    [] pc = "venvcreate"  -> Op("venv", "-m venv", 0)
    [] pc = "pipupgrade"  -> Op("venv", "pip install --upgrade pip", 0)
    [] pc = "download"    -> Op("fonts", "download", prog.i)
    [] pc = "extract"     -> Op("fonts", "extract", prog.i)
    [] pc = "pipinstall"  -> Op("deps", "pip install", prog.i)
    [] pc = "pipshow"     -> Op("deps", "pip show", prog.i)
    [] pc = "model"       -> Op("model", "download model", 0)
    [] pc = "npmlist1"    -> Op("registration", "npm list koshi-vox", 0)
    [] pc = "npmlist2"    -> Op("registration", "npm list scoped", 0)
    [] pc = "npminstall"  -> Op("registration", "npm install -g", 0)
    [] pc = "npmprefix"   -> Op("registration", "npm prefix -g", 0)
    [] pc = "setupvox"    -> Op("alias", "setup-vox", 0)
    [] OTHER              -> Op("none", "none", 0)

AwaitPoints ==
  {"probe", "brewcheck", "brewinstall", "brewupdate", "brewpython", "brewlink",
   "pip", "ensurepip", "venvcreate", "pipupgrade", "download", "extract",
   "pipinstall", "pipshow", "model", "npmlist1", "npmlist2", "npminstall",
   "npmprefix", "setupvox"}

\* A step that goes on without its operation having settled.
SettleForgotten(ops, op) == ops

\* The awaited operation has settled: it is no longer in flight.
Settle(ops, op) == ops \ {op}

\* Parts of a step.
FixedRun ==
  UNCHANGED <<mode, calls, loaded, loadResult, platform, env0, run, after1,
              file0, budget, procs, bump>>

Fixed == FixedRun /\ UNCHANGED dl

At(l) == mode = "main" /\ pc = l /\ exitCode = -1

Awaited(l) == At(l) /\ CommandAt \in inflight

Settled == inflight' = Settle(inflight, CommandAt) /\ UNCHANGED lastStage

Sync == UNCHANGED <<inflight, lastStage>>

Goto(l) ==
  /\ pc' = l
  /\ exitCode' = IF l = "exit" THEN 1 ELSE IF l = "done" THEN 0 ELSE exitCode

\* A variant in which a failed write undoes the change in memory.
LogCallUndone(l, o) ==
  log' = (IF o = "ok" THEN l ELSE log) /\ save(l, o) /\ now' = now + 1

\* A call of a method of the log at time now; o is the outcome of its write.
LogCall(l, o) == log' = l /\ save(l, o) /\ now' = now + 1

NoLogCall == UNCHANGED <<log, now>> /\ NoSave

---------------------------------------------------------------------------
(* downloadFile                                                            *)

\* What a request can be answered with: no response at all (status 0, the
\* request's 'error' event), or a response with a status; the body of a 200
\* response arrives whole, or the connection is closed or reset before its
\* end, or writing it to dest fails.
Statuses == {0, 200, 204, 301, 302, 307, 404}
Bodies == {"whole", "closed early", "reset", "write failed"}
Responses ==
  {[status |-> s, body |-> "none"] : s \in Statuses \ {200}}
  \cup {[status |-> 200, body |-> b] : b \in Bodies}

\* response.statusCode === 301 || response.statusCode === 302
Followed == {301, 302}

\* No download is going on.
Idle ==
  [url |-> 0, status |-> 0, body |-> "none", promise |-> "none",
   settles |-> 0, dest |-> "absent"]

\* downloadFile has been called: createWriteStream has created dest, the
\* request for the font's url (url 0) is out and the promise is pending.
Called == [Idle EXCEPT !.promise = "pending", !.dest = "empty"]

\* A variant in which a status other than 200 rejects and leaves dest.
HandleResponseKeepsFile(d, r) ==
  LET got == [d EXCEPT !.status = r.status, !.body = r.body]
      rejected == [got EXCEPT !.promise = "rejected", !.settles = @ + 1]
  IN CASE r.status \in Followed -> [got EXCEPT !.url = @ + 1, !.dest = "empty"]
       [] r = [status |-> 200, body |-> "whole"] ->
            [got EXCEPT !.promise = "resolved", !.settles = @ + 1,
                        !.dest = "whole"]
       [] OTHER -> rejected

\* The call d after the response r to its request for url d.url.
\* A 301 or 302 unlinks dest and calls downloadFile for the Location, url
\* d.url + 1, with the same dest, passing that call's outcome on.  Any other
\* status but 200 unlinks dest and rejects.  The body of a 200 is piped to
\* dest: 'finish' resolves; the file's 'error' unlinks dest and rejects; the
\* request's 'error' (no response, or a reset connection) only rejects; a
\* connection closed early raises no event that is listened to.
HandleResponse(d, r) ==
  LET got == [d EXCEPT !.status = r.status, !.body = r.body]
      rejected == [got EXCEPT !.promise = "rejected", !.settles = @ + 1]
  IN CASE r.status = 0 -> rejected
       [] r.status \in Followed -> [got EXCEPT !.url = @ + 1, !.dest = "empty"]
       [] r.status # 200 -> [rejected EXCEPT !.dest = "absent"]
       [] r.body = "whole" ->
            [got EXCEPT !.promise = "resolved", !.settles = @ + 1,
                        !.dest = "whole"]
       [] r.body = "write failed" -> [rejected EXCEPT !.dest = "absent"]
       [] r.body = "reset" -> [rejected EXCEPT !.dest = "partial"]
       [] OTHER -> [got EXCEPT !.dest = "partial"]

\* The interval timer the program starts in the step in which it starts
\* the command at l: the spinner of install()'s package i, the ticker of
\* downloadWhisperModel.
TimerAt(l, i) ==
  CASE l = "pipinstall" -> {Op("deps", "setInterval", i)}
    [] l = "model"      -> {Op("model", "setInterval", 0)}
    [] OTHER            -> {}

\* A variant that leaves the timer running.
clearIntervalForgotten(timers, l, i) == timers

\* clearInterval(interval), for the timer started at l.
clearInterval(timers, l, i) == timers \ TimerAt(l, i)

\* The program starts the operation it is about to await.
Start ==
  /\ mode = "main" /\ exitCode = -1
  /\ pc \in AwaitPoints
  /\ CommandAt \notin inflight
  /\ inflight' = inflight \cup {CommandAt}
  /\ did' = did \cup {CommandAt}
  /\ lastStage' = StageIdx(CommandAt.stage)
  /\ prog' = [prog EXCEPT !.timers = @ \cup TimerAt(pc, prog.i)]
  /\ UNCHANGED <<file, log, now, pc, fails, lastGood, lastWrite, env,
                 faulty, exitCode, why>>
  /\ Fixed

\* No second process runs beside this one.
Procs == 1..2
NoProcs ==
  [p \in Procs |-> [pc |-> "off", log |-> DefaultLog(0), loadResult |-> "none",
                    calls |-> 0, overlaid |-> FALSE]]

\* scripts/update-version.js is not run.
NoBump ==
  [arg |-> [given |-> FALSE, text |-> <<>>], pc |-> "off", k |-> 0,
   exitCode |-> -1, results |-> <<>>, messages |-> <<>>, touched |-> {}]

\* main() up to ensurePython's first probe.
MainStart ==
  /\ At("main")
  /\ Goto("probe")
  /\ prog' = [prog EXCEPT !.i = 1]
  /\ UNCHANGED <<env, did, faulty, why>>
  /\ Sync /\ NoLogCall /\ Fixed

---------------------------------------------------------------------------
(* Stage 1: the runtime.                                                   *)

\* ensurePython: one candidate's version query has settled.  prog.probed is
\* what the query answered (stdout, version, major, minor), which the loop
\* body holds until the loop is over; prog.qualified is history: some
\* candidate has reported a version of at least 3.8.
Probe ==
  /\ Awaited("probe")
  /\ \E r \in ProbeResults :
       /\ Accepts(r) <=> prog.i = env.python
       /\ LET cmd == PYTHON_COMMANDS[prog.i]
              next == IF Accepts(r) THEN "pip"
                      ELSE IF prog.i < Len(PYTHON_COMMANDS) THEN "probe"
                      ELSE ProvisionOrGiveUp(platform)
              q == prog.qualified \/ (r.kind = "version" /\ AtLeast38(r))
          IN /\ prog' = IF Accepts(r)
                        THEN [prog EXCEPT !.pythonCmd = cmd, !.probed = r,
                                          !.qualified = q]
                        ELSE IF next = "probe"
                        THEN [prog EXCEPT !.i = @ + 1, !.probed = r,
                                          !.qualified = q]
                        ELSE [prog EXCEPT !.probed = r, !.qualified = q]
             /\ Goto(IF next = "return null" THEN MainAfterPython("null") ELSE next)
             /\ why' = IF next = "return null" THEN "no runtime" ELSE why
  /\ UNCHANGED <<env, did, faulty>>
  /\ Settled /\ NoLogCall /\ Fixed

\* checkHomebrew
BrewCheck ==
  /\ Awaited("brewcheck")
  /\ \E has \in BOOLEAN :
       /\ prog' = [prog EXCEPT !.hasHomebrew = has, !.probed = Prog0.probed]
       /\ Goto(IF has THEN "brewupdate" ELSE "brewinstall")
  /\ UNCHANGED <<env, did, faulty, why>>
  /\ Settled /\ NoLogCall /\ Fixed

\* installHomebrew: the installer script has closed with code 0 or not.  A
\* setComponent that raises does so in the close callback: the promise never
\* settles and the rejection is unhandled, which ends the process with code 1
\* or, on a runtime that only warns, with code 0 once nothing is pending.
BrewInstall ==
  /\ Awaited("brewinstall")
  /\ \E ok \in BOOLEAN, o \in WriteOutcomes :
       IF ok /\ CanSetComponent(log)
       THEN /\ LogCall(setComponent(log, "homebrew",
                         [installed |-> TRUE, installedByKoshi |-> TRUE,
                          path |-> "/opt/homebrew", installedAt |-> now]), o)
            /\ Fault("runtime", o # "ok")
            /\ Goto("brewupdate")
            /\ why' = why
       ELSE /\ o = "ok"
            /\ NoLogCall
            /\ Fault("runtime", ~ok)
            /\ pc' = "exit"
            /\ exitCode' \in IF ok THEN {0, 1} ELSE {1}
            /\ why' = IF ok THEN "unhandled rejection" ELSE "exception"
  /\ UNCHANGED <<prog, env, did>>
  /\ Settled /\ Fixed

\* A variant in which the last command's failure is not reported.
InstalledAnyway(ok, last) == last

\* const installed = await installPythonViaHomebrew(): true when the last
\* command has succeeded (an earlier failure has returned false already).
Installed(ok, last) == ok /\ last

\* installPythonViaHomebrew: brew update, brew install, brew link; any
\* failure makes it return false, and ensurePython goes on with no command.
BrewStep ==
  /\ \E l \in {"brewupdate", "brewpython", "brewlink"} : Awaited(l)
  /\ \E ok \in BOOLEAN, o \in WriteOutcomes :
       LET last == pc = "brewlink"
           logs == Installed(ok, last) /\ CanSetComponent(log)
       IN /\ IF logs
             THEN LogCall(setComponent(log, "python",
                            [installed |-> TRUE, version |-> "3.11",
                             path |-> "python3.11", installedBy |-> "homebrew",
                             installedByKoshi |-> ~prog.hasHomebrew,
                             installedAt |-> now]), o)
             ELSE o = "ok" /\ NoLogCall
          /\ Fault("runtime", ~ok \/ o # "ok")
          /\ prog' = IF Installed(ok, last)
                     THEN [prog EXCEPT !.pythonCmd = "python3.11"]
                     ELSE prog
          /\ Goto(CASE ~ok -> "pip"
                    [] pc = "brewupdate" -> "brewpython"
                    [] pc = "brewpython" -> "brewlink"
                    [] logs -> "pip"
                    [] OTHER -> "exit")
          /\ why' = IF Installed(ok, last) /\ ~logs THEN "exception" ELSE why
          /\ env' = IF ok /\ last THEN [env EXCEPT !.python = 1] ELSE env
  /\ UNCHANGED did
  /\ Settled /\ Fixed

\* `${pythonCmd} -m pip --version`; with no command the shell line fails.
Pip ==
  /\ Awaited("pip")
  /\ \E ok \in BOOLEAN :
       /\ ok => prog.pythonCmd # "null"
       /\ Goto(IF ok THEN MainAfterPython(prog.pythonCmd) ELSE "ensurepip")
  /\ prog' = [prog EXCEPT !.probed = Prog0.probed]
  /\ UNCHANGED <<env, did, faulty, why>>
  /\ Settled /\ NoLogCall /\ Fixed

\* `${pythonCmd} -m ensurepip --upgrade`; its failure is raised to main().
EnsurePip ==
  /\ Awaited("ensurepip")
  /\ \E ok \in BOOLEAN :
       /\ ok => prog.pythonCmd # "null"
       /\ Fault("runtime", ~ok /\ prog.pythonCmd # "null")
       /\ Goto(IF ok THEN MainAfterPython(prog.pythonCmd) ELSE "exit")
       /\ why' = IF ok THEN why ELSE "exception"
  /\ UNCHANGED <<prog, env, did>>
  /\ Settled /\ NoLogCall /\ Fixed

---------------------------------------------------------------------------
(* Stage 2: the isolated environment.                                      *)

\* setupVirtualEnvironment: fs.existsSync(VENV_DIR)
VenvCheck ==
  /\ At("venv")
  /\ Goto(IF env.venvDir # "absent" THEN "pipupgrade" ELSE "venvcreate")
  /\ did' = did \cup {Op("venv", "exists", 0)}
  /\ UNCHANGED <<prog, env, faulty, why>>
  /\ Sync /\ NoLogCall /\ Fixed

\* `${pythonCmd} -m venv VENV_DIR`; a command that fails may have made the
\* directory already.
VenvCreate ==
  /\ Awaited("venvcreate")
  /\ \E ok \in BOOLEAN, left \in {"absent", "broken"} :
       /\ Fault("venv", ~ok)
       /\ env' = [env EXCEPT !.venvDir = IF ok THEN "ready" ELSE left]
       /\ Goto(IF ok THEN "pipupgrade" ELSE MainAfterVenv("null"))
       /\ why' = IF ok THEN why ELSE "venv creation failed"
  /\ UNCHANGED <<prog, did>>
  /\ Settled /\ NoLogCall /\ Fixed

\* pip upgrade in the environment, then the log's virtualEnv component; a
\* failure of either is caught and setupVirtualEnvironment returns null.
PipUpgrade ==
  /\ Awaited("pipupgrade")
  /\ \E ok \in BOOLEAN, o \in WriteOutcomes :
       IF ok /\ CanSetComponent(log)
       THEN /\ LogCall(setComponent(log, "virtualEnv",
                         [installed |-> TRUE, path |-> "venv"]), o)
            /\ Fault("venv", o # "ok")
            /\ prog' = [prog EXCEPT !.venvPython = "venv/bin/python", !.i = 1]
            /\ Goto(MainAfterVenv("venv/bin/python"))
            /\ why' = why
       ELSE /\ o = "ok"
            /\ NoLogCall
            /\ Fault("venv", ~ok)
            /\ prog' = prog
            /\ Goto(MainAfterVenv("null"))
            /\ why' = IF ok THEN "virtualEnv not logged" ELSE "pip upgrade failed"
  /\ UNCHANGED <<env, did>>
  /\ Settled /\ Fixed

---------------------------------------------------------------------------
(* Stage 3: the fonts.                                                     *)

\* installFonts, top of the loop: skip a cached font, else make the scratch
\* directory; after the last font, installPythonDeps builds its installer.
FontCheck ==
  /\ At("font")
  /\ IF prog.i > Len(FONTS)
     THEN /\ Goto("pipinstall")
          /\ prog' = [prog EXCEPT !.i = 1, !.installed = <<>>, !.failed = <<>>,
                                   !.regularFont = "unset"]
          /\ UNCHANGED <<env, did>>
     ELSE IF NeedsFetch(env.cache[prog.i])
     THEN /\ Goto("download")
          /\ env' = [env EXCEPT !.tempDirs = @ \cup {prog.i}]
          /\ did' = did \cup {Op("fonts", "mkdtemp", prog.i)}
          /\ prog' = [prog EXCEPT !.regularFont = "unset"]
     ELSE /\ Goto("font")
          /\ prog' = [prog EXCEPT !.i = @ + 1, !.regularFont = "unset"]
          /\ UNCHANGED <<env, did>>
  /\ dl' = IF prog.i <= Len(FONTS) /\ NeedsFetch(env.cache[prog.i])
           THEN Called ELSE Idle
  /\ UNCHANGED <<faulty, why>>
  /\ Sync /\ NoLogCall /\ FixedRun

\* One answer to a request of downloadFile.  After a followed redirect the
\* call is still awaited; a settled promise resumes installFonts, at
\* extractZip when it resolved and in the catch clause when it rejected; a
\* promise that can no longer settle leaves the process with nothing to
\* run, and it ends.
Download ==
  /\ Awaited("download")
  /\ \E r \in Responses :
       /\ r.status \in Followed => dl.url < MaxRedirects
       /\ dl' = HandleResponse(dl, r)
       /\ Fault("fonts", ~(r.status \in Followed \/ r = [status |-> 200, body |-> "whole"]))
       /\ CASE r.status \in Followed ->
                 /\ UNCHANGED <<pc, exitCode, prog, why>>
                 /\ Sync
            [] dl'.promise = "resolved" ->
                 /\ Goto("extract")
                 /\ UNCHANGED <<prog, why>>
                 /\ Settled
            [] dl'.promise = "rejected" ->
                 /\ Goto("font")
                 /\ prog' = [prog EXCEPT !.i = @ + 1]
                 /\ UNCHANGED why
                 /\ Settled
            [] OTHER ->
                 /\ pc' = "stalled"
                 /\ exitCode' = 0
                 /\ why' = "download never settled"
                 /\ UNCHANGED prog
                 /\ Sync
  /\ UNCHANGED <<env, did>>
  /\ NoLogCall /\ FixedRun

\* A variant that copies a file of the archive when none matches.
CacheAfterAnyFile(c, res) ==
  CASE res \in {"copied", "no match"} -> "fetched"
    [] res = "copy cut short" -> "partial"
    [] OTHER -> c

\* The font's file in the cache after the body of the try block: only
\* copyFileSync, reached when a regular variant was found, writes it.
CacheAfter(c, res) ==
  CASE res = "copied" -> "fetched"
    [] res = "copy cut short" -> "partial"
    [] OTHER -> c

\* A variant that logs the font whether or not the copy went through.
AddsFontEvenIfCopyFailed(res, l) ==
  res \in {"copied", "copy failed", "copy cut short"} /\ CanAddFont(l)

\* installLog.addFont is reached, and adds the entry, when copyFileSync has
\* returned and the record has its fonts collection.
AddsFont(res, l) == res = "copied" /\ CanAddFont(l)

\* extractZip, the search for the regular variant (prog.regularFont, which
\* the loop body holds until the next font), the copy to the cache,
\* addFont and the removal of the scratch directory.  An exception skips
\* the removal; a copy that fails may leave a part of the file in the cache.
Extract ==
  /\ Awaited("extract")
  /\ \E res \in {"copied", "no match", "copy failed", "copy cut short",
                  "extract failed"},
        o \in WriteOutcomes :
       LET k == prog.i
           logs == AddsFont(res, log)
           removed == res = "no match" \/ logs
       IN /\ IF logs
             THEN LogCall(addFont(log, FONTS[k], "cache", now), o)
             ELSE o = "ok" /\ NoLogCall
          /\ Fault("fonts", res # "copied" \/ o # "ok")
          /\ env' = [env EXCEPT
                       !.cache[k] = CacheAfter(@, res),
                       !.tempDirs = IF removed THEN @ \ {k} ELSE @]
          /\ did' = IF res = "copied"
                    THEN did \cup {Op("fonts", "copy", k)} ELSE did
          /\ prog' = [prog EXCEPT
                        !.i = @ + 1,
                        !.regularFont = CASE res = "extract failed" -> "unset"
                                          [] res = "no match" -> "undefined"
                                          [] OTHER -> "found"]
  /\ Goto("font")
  /\ UNCHANGED why
  /\ Settled /\ Fixed

---------------------------------------------------------------------------
(* Stage 4: the dependencies (PackageInstaller.install).                   *)

\* After package i: the next package, or the end of install().
AfterPackage(k) == IF k < Len(Packages) THEN "pipinstall" ELSE "model"

\* pip install of package i has settled.
PipInstall ==
  /\ Awaited("pipinstall")
  /\ \E ok \in BOOLEAN :
       LET name == Packages[prog.i]
       IN /\ Fault("deps", ~ok)
          /\ prog' = IF ok
                     THEN [prog EXCEPT !.installed = Append(@, name),
                                       !.attempted = Append(@, name),
                                       !.timers = clearInterval(@, pc, prog.i)]
                     ELSE [prog EXCEPT !.failed = Append(@, name),
                                       !.attempted = Append(@, name),
                                       !.i = @ + 1,
                                       !.timers = clearInterval(@, pc, prog.i)]
          /\ Goto(IF ok THEN "pipshow" ELSE AfterPackage(prog.i))
  /\ UNCHANGED <<env, did, why>>
  /\ Settled /\ NoLogCall /\ Fixed

\* pip show has settled: addPythonPackage(name, version || 'unknown'), or
\* addPythonPackage(name, 'unknown') when the query failed.  When the log
\* raises, the retry in the inner catch raises again and the outer catch
\* pushes the name to this.failed.
PipShow ==
  /\ Awaited("pipshow")
  /\ \E vok \in BOOLEAN, o \in WriteOutcomes :
       LET name == Packages[prog.i]
           version == IF vok THEN "1.0" ELSE "unknown"
       IN /\ IF CanAddPackage(log)
             THEN /\ LogCall(addPythonPackage(log, name, version, now), o)
                  /\ prog' = [prog EXCEPT !.i = @ + 1]
             ELSE /\ o = "ok"
                  /\ NoLogCall
                  /\ prog' = [prog EXCEPT
                       !.failed = Append(@, name), !.i = @ + 1,
                       !.timers = clearInterval(@, "pipinstall", prog.i)]
          /\ Fault("deps", ~vok \/ o # "ok")
  /\ Goto(AfterPackage(prog.i))
  /\ UNCHANGED <<env, did, why>>
  /\ Settled /\ Fixed

---------------------------------------------------------------------------
(* Stage 5: the model.                                                     *)

\* downloadWhisperModel: both the command's failure and a raising
\* setComponent are caught.
Model ==
  /\ Awaited("model")
  /\ \E ok \in BOOLEAN, o \in WriteOutcomes :
       /\ IF ok /\ CanSetComponent(log)
          THEN LogCall(setComponent(log, "whisperModel",
                         [model |-> "base", size |-> "74MB", downloaded |-> TRUE,
                          installedAt |-> now]), o)
          ELSE o = "ok" /\ NoLogCall
       /\ Fault("model", ~ok \/ o # "ok")
  /\ Goto("shell")
  /\ prog' = [prog EXCEPT !.timers = clearInterval(@, pc, 0)]
  /\ UNCHANGED <<env, did, why>>
  /\ Settled /\ Fixed

---------------------------------------------------------------------------
(* Stage 6: the shell profile.                                             *)

\* A variant that finds every profile in need of the block.
NeedsAppendAlways(content) == TRUE

\* !content.includes('KOSHI_VOX_VENV'): a plain profile has no such line, a
\* configured one has; the block that is appended has one.
NeedsAppend(content) == content = "plain"

\* A variant in which no copy is made.
BackupSkipped(e, t) == e

\* copyFileSync(shellConfig, backupPath), backupPath ending in Date.now():
\* the copy holds what the profile holds.
Backup(e, t) == [e EXCEPT !.backup = <<t>>, !.backupOf = e.profile]

\* updateShellConfig: read the profile; without the marker, copy it to the
\* backup path.  A missing profile or a failed copy is caught.
ShellRead ==
  /\ At("shell")
  /\ \E ok \in BOOLEAN :
       LET backs == env.profile # "missing" /\ NeedsAppend(env.profile)
       IN /\ ~backs => ok
          /\ Fault("shell", ~ok)
          /\ env' = IF backs /\ ok THEN Backup(env, now) ELSE env
          /\ did' = did \cup {Op("shell", "read profile", 0)}
                        \cup IF backs /\ ok
                             THEN {Op("shell", "backup", 0)} ELSE {}
          /\ Goto(IF backs /\ ok THEN "shellappend" ELSE "npm")
  /\ UNCHANGED <<prog, why>>
  /\ Sync /\ NoLogCall /\ Fixed

\* A variant in which the component is set whether or not the append failed.
ShellLogsAnyway(appended, l) == CanSetComponent(l)

\* setComponent('shellConfig', ...) comes after appendFileSync in the try
\* block: it is reached only when the append raised nothing.
ShellLogs(appended, l) == appended /\ CanSetComponent(l)

\* After the loading bar: append the block, then log the shellConfig component.
ShellAppend ==
  /\ At("shellappend")
  /\ \E ok \in BOOLEAN, o \in WriteOutcomes :
       /\ IF ShellLogs(ok, log)
          THEN LogCall(setComponent(log, "shellConfig",
                         [modified |-> TRUE, backupPath |-> env.backup]), o)
          ELSE o = "ok" /\ NoLogCall
       /\ Fault("shell", ~ok \/ o # "ok")
       /\ env' = IF ok THEN [env EXCEPT !.profile = "configured",
                                         !.blocks = @ + 1]
                 ELSE env
       /\ did' = IF ok THEN did \cup {Op("shell", "append", 0)} ELSE did
  /\ Goto("npm")
  /\ UNCHANGED <<prog, why>>
  /\ Sync /\ Fixed

---------------------------------------------------------------------------
(* Stage 7: global registration (installNpmPackage).                       *)

\* The search for the package directory, and process.chdir into it.
NpmFind ==
  /\ At("npm")
  /\ \E found \in BOOLEAN :
       /\ Fault("registration", ~found)
       /\ prog' = IF found THEN [prog EXCEPT !.cwd = "package"]
                  ELSE [prog EXCEPT !.npmInstalled = FALSE]
       /\ Goto(IF found THEN "npmlist1" ELSE "final")
       /\ did' = did \cup {Op("registration", "find package", 0)}
  /\ UNCHANGED <<env, why>>
  /\ Sync /\ NoLogCall /\ Fixed

\* npm list -g under either name: only needsInstall, a message, depends on it.
NpmList ==
  /\ \E l \in {"npmlist1", "npmlist2"} : Awaited(l)
  /\ \E ok \in BOOLEAN :
       Goto(IF ok \/ pc = "npmlist2" THEN "npminstall" ELSE "npmlist2")
  /\ UNCHANGED <<prog, env, did, faulty, why>>
  /\ Settled /\ NoLogCall /\ Fixed

\* npm install -g . : its failure is only reported.
NpmInstall ==
  /\ Awaited("npminstall")
  /\ \E ok \in BOOLEAN : Fault("registration", ~ok)
  /\ Goto("npmprefix")
  /\ UNCHANGED <<prog, env, did, why>>
  /\ Settled /\ NoLogCall /\ Fixed

\* A variant that returns true whatever the probe found.
NpmReturnsTrue(found) == TRUE

\* if (voxFound) { setComponent; chdir; return true } else { ...; return
\* false }, and return false in the catch clause.
NpmReturns(found) == found

\* npm prefix -g, then the probe of the candidate command paths.
NpmPrefix ==
  /\ Awaited("npmprefix")
  /\ \E res \in {"prefix failed", "vox found", "vox missing"},
        o \in WriteOutcomes :
       LET logs == res = "vox found" /\ CanSetComponent(log)
       IN /\ IF logs
             THEN LogCall(setComponent(log, "npmPackage",
                            [installed |-> TRUE, version |-> "1.2.5",
                             prefix |-> "prefix", binPath |-> "prefix/bin"]), o)
             ELSE o = "ok" /\ NoLogCall
          /\ Fault("registration", res # "vox found" \/ o # "ok")
          /\ prog' = [prog EXCEPT
                        !.npmInstalled = NpmReturns(logs),
                        !.voxFound = res = "vox found",
                        !.cwd = IF logs \/ res = "vox missing" THEN "orig" ELSE @]
  /\ Goto("final")
  /\ UNCHANGED <<env, did, why>>
  /\ Settled /\ Fixed

---------------------------------------------------------------------------
(* Stage 8: the alias setup (launchSetupVox), and the end of main().       *)

\* The final message of main(): the banner is printed whatever the stages
\* returned; only the line about the npm package depends on npmInstalled.
FinalBanner(npmInstalled) == "SUCCESS!"

Final ==
  /\ At("final")
  /\ \E launch \in BOOLEAN :
       /\ launch => prog.npmInstalled
       /\ Goto(IF launch THEN "setupvox" ELSE "done")
  /\ prog' = [prog EXCEPT !.banner = FinalBanner(prog.npmInstalled)]
  /\ UNCHANGED <<env, did, faulty, why>>
  /\ Sync /\ NoLogCall /\ Fixed

SetupVox ==
  /\ Awaited("setupvox")
  /\ Goto("done")
  /\ UNCHANGED <<prog, env, did, faulty, why>>
  /\ Settled /\ NoLogCall /\ Fixed

---------------------------------------------------------------------------
(* The installer run once, in any environment.                             *)

Platforms == {"darwin", "linux", "win32"}

\* An environment: the venv directory (absent, ready, or left broken by a
\* failed creation), each font's cache
\* file, the scratch directories left, the profile and its backup, and the
\* first of PYTHON_COMMANDS that answers with a version main() accepts (0 if
\* none does).
Env(v, c1, c2, p, py) ==
  [ venvDir |-> v, cache |-> <<c1, c2>>, tempDirs |-> {}, profile |-> p,
    blocks |-> 0, backup |-> <<>>, backupOf |-> "none", python |-> py ]

Provisioned == Env("ready", "cached", "cached", "configured", 1)

\* First installations without and with a runtime, a complete earlier
\* installation, and a partial one.
Envs ==
  { Env("absent", "absent", "absent", "plain", 0),
    Env("absent", "absent", "absent", "plain", 3),
    Provisioned,
    Env("ready", "cached", "absent", "missing", 2) }

\* The persisted files the installer may find: none, a file that is not
\* JSON, JSON values that are not records, and records of earlier runs.
MainFiles ==
  {NoFile, BadFile}
  \cup {Serialize(r) : r \in {m \in MalformedRecs :
                                Len(m.pythonPackages) + Len(m.fonts) = 0}}
  \cup {Serialize([DefaultLog(1) EXCEPT
          !.pythonPackages = <<Entry("soundfile", "0.9", 1),
                               Entry("soundfile", "1.0", 2)>>,
          !.fonts = <<Entry("Departure Mono", "cache", 1)>>,
          !.comps = [DefaultComps EXCEPT
                       !.virtualEnv = [installed |-> TRUE, path |-> "venv"]]])}

InitPipe ==
  /\ log = DefaultLog(0)
  /\ now = MaxStamp + 1
  /\ pc = "boot"
  /\ calls = 0
  /\ fails = 0
  /\ loaded = DefaultLog(0)
  /\ loadResult = "none"
  /\ lastGood = file
  /\ lastWrite = "none"
  /\ prog = Prog0
  /\ env0 = env
  /\ inflight = {}
  /\ did = {}
  /\ lastStage = 0
  /\ faulty = {}
  /\ exitCode = -1
  /\ why = "running"
  /\ run = 1
  /\ after1 = NoFile
  /\ dl = Idle
  /\ procs = NoProcs
  /\ bump = NoBump

Init ==
  /\ file \in MainFiles
  /\ mode = "main"
  /\ platform \in Platforms
  /\ env \in Envs
  /\ budget = MaxFaultyStages
  /\ file0 = file
  /\ InitPipe

Next ==
  \/ Construct
  \/ Start
  \/ MainStart
  \/ Probe
  \/ BrewCheck
  \/ BrewInstall
  \/ BrewStep
  \/ Pip
  \/ EnsurePip
  \/ VenvCheck
  \/ VenvCreate
  \/ PipUpgrade
  \/ FontCheck
  \/ Download
  \/ Extract
  \/ PipInstall
  \/ PipShow
  \/ Model
  \/ ShellRead
  \/ ShellAppend
  \/ NpmFind
  \/ NpmList
  \/ NpmInstall
  \/ NpmPrefix
  \/ Final
  \/ SetupVox

Spec == Init /\ [][Next]_vars

---------------------------------------------------------------------------
(* The installer run again and again in a provisioned environment where    *)
(* nothing fails; the profile may have lost its block since.               *)

\* The process has ended and the installer is started once more.
Relaunch ==
  /\ mode = "main"
  /\ exitCode # -1
  /\ run < MaxRuns
  /\ run' = run + 1
  /\ after1' = IF run = 1 THEN file ELSE after1
  /\ pc' = "boot"
  /\ prog' = Prog0
  /\ log' = DefaultLog(0)
  /\ loaded' = DefaultLog(0)
  /\ loadResult' = "none"
  /\ inflight' = {}
  /\ did' = {}
  /\ lastStage' = 0
  /\ exitCode' = -1
  /\ why' = "running"
  /\ UNCHANGED <<file, now, mode, calls, fails, lastGood, lastWrite, platform,
                 env, env0, faulty, file0, budget, dl, procs, bump>>

InitTwice ==
  /\ file \in MainFiles
  /\ mode = "main"
  /\ platform \in Platforms
  /\ env \in {[Provisioned EXCEPT !.python = k] : k \in 1..Len(PYTHON_COMMANDS)}
             \cup {[Provisioned EXCEPT !.profile = "plain"]}
  /\ budget = 0
  /\ file0 = file
  /\ InitPipe

\* The steps a provisioned environment enables.
NextTwice ==
  \/ Construct
  \/ Start
  \/ MainStart
  \/ Probe
  \/ Pip
  \/ VenvCheck
  \/ PipUpgrade
  \/ FontCheck
  \/ PipInstall
  \/ PipShow
  \/ Model
  \/ ShellRead
  \/ ShellAppend
  \/ NpmFind
  \/ NpmList
  \/ NpmInstall
  \/ NpmPrefix
  \/ Final
  \/ SetupVox
  \/ Relaunch

SpecTwice == InitTwice /\ [][NextTwice]_vars

\* The log's methods called directly.
InitLog ==
  /\ file \in InitFiles
  /\ mode = "api"
  /\ platform = "linux"
  /\ env = Env("absent", "absent", "absent", "plain", 0)
  /\ budget = 0
  /\ file0 = NoFile
  /\ InitPipe

NextLog ==
  \/ Construct
  \/ ApiAddPythonPackage
  \/ ApiAddFont
  \/ ApiSetComponent
  \/ ApiRelaunch

SpecLog == InitLog /\ [][NextLog]_vars


---------------------------------------------------------------------------
(* Two installers started side by side.  Each is a process of its own with
   its own installLog; the installation file is all they share.  A process
   is single-threaded, so only its system calls interleave with the other's:
   the read of load(), and the open (which truncates) and the write of
   every writeFileSync.                                                    *)

MaxRaceCalls == 1      \* addPythonPackage or addFont calls per racing process

RaceFiles ==
  {NoFile, BadFile}
  \cup {Serialize([DefaultLog(1) EXCEPT
          !.pythonPackages = <<Entry("soundfile", "0.9", 1),
                               Entry("soundfile", "1.0", 2)>>,
          !.fonts = <<Entry("Departure Mono", "cache", 1)>>])}
  \cup {Serialize([DefaultLog(1) EXCEPT
          !.pythonPackages = <<Entry("librosa", "0.9", 1)>>])}
  \cup {Serialize([DefaultLog(1) EXCEPT
          !.hasPkgs = FALSE,
          !.fonts = <<Entry("Departure Mono", "cache", 1),
                      Entry("Departure Mono", "cache", 2)>>])}

RaceFixed ==
  UNCHANGED <<log, pc, mode, calls, loaded, loadResult, lastGood, platform,
              prog, env, env0, inflight, did, lastStage, faulty, exitCode,
              why, run, after1, file0, budget, dl, bump>>

\* load() of process p up to the end of cleanupDuplicates: the file is read
\* as it is at this moment, a file another process has truncated and not yet
\* written included.
RaceLoad(p) ==
  /\ procs[p].pc = "boot"
  /\ procs' = [procs EXCEPT
       ![p].log = LoadedLog(file, now),
       ![p].loadResult = LoadResult(file),
       ![p].pc = IF LoadSucceeds(file) THEN "unsaved" ELSE "ready"]
  /\ now' = now + 2
  /\ UNCHANGED <<file, fails, lastWrite>>
  /\ RaceFixed

\* addPythonPackage or addFont of process p up to its save().
RaceAdd(p) ==
  /\ procs[p].pc = "ready"
  /\ procs[p].calls < MaxRaceCalls
  /\ \/ /\ CanAddPackage(procs[p].log)
        /\ \E n \in PkgNames, v \in ApiVersions :
             procs' = [procs EXCEPT
               ![p].log = addPythonPackage(@, n, v, now),
               ![p].calls = @ + 1,
               ![p].pc = "unsaved"]
     \/ /\ CanAddFont(procs[p].log)
        /\ \E n \in FontNames, q \in ApiPaths :
             procs' = [procs EXCEPT
               ![p].log = addFont(@, n, q, now),
               ![p].calls = @ + 1,
               ![p].pc = "unsaved"]
  /\ now' = now + 1
  /\ UNCHANGED <<file, fails, lastWrite>>
  /\ RaceFixed

\* writeFileSync of process p, first half: the open with flag 'w'.  It
\* fails and leaves the file alone, or it truncates the file.
RaceOpen(p) ==
  /\ procs[p].pc = "unsaved"
  /\ \/ /\ CanWrite("untouched")
        /\ procs' = [procs EXCEPT ![p].pc = "ready"]
        /\ fails' = fails + 1
        /\ lastWrite' = "untouched"
        /\ UNCHANGED file
     \/ /\ procs' = [procs EXCEPT ![p].pc = "opened", ![p].overlaid = FALSE]
        /\ file' = BadFile
        /\ UNCHANGED <<fails, lastWrite>>
  /\ UNCHANGED now
  /\ RaceFixed

\* writeFileSync of process p, second half: the text goes to offset 0 of
\* the file.  A write that fails leaves a prefix of the text.  Text that
\* lands on a longer text the other process wrote after p's open leaves
\* that text's tail behind it, and the file is not JSON.
RaceWrite(p) ==
  /\ procs[p].pc = "opened"
  /\ \E o \in {"ok", "partial"} :
       /\ CanWrite(o)
       /\ \/ file' = WriteFile(file, procs[p].log, o)
          \/ procs[p].overlaid /\ file' = BadFile
       /\ fails' = IF o = "ok" THEN fails ELSE fails + 1
       /\ lastWrite' = o
  /\ procs' = [q \in Procs |->
       IF q = p THEN [procs[q] EXCEPT !.pc = "ready"]
       ELSE IF procs[q].pc = "opened" THEN [procs[q] EXCEPT !.overlaid = TRUE]
       ELSE procs[q]]
  /\ UNCHANGED now
  /\ RaceFixed

InitRace ==
  /\ file \in RaceFiles
  /\ mode = "race"
  /\ platform = "linux"
  /\ env = Env("absent", "absent", "absent", "plain", 0)
  /\ budget = 0
  /\ file0 = file
  /\ now = 3
  /\ pc = "boot"
  /\ log = DefaultLog(0)
  /\ calls = 0
  /\ fails = 0
  /\ loaded = DefaultLog(0)
  /\ loadResult = "none"
  /\ lastGood = file
  /\ lastWrite = "none"
  /\ prog = Prog0
  /\ env0 = env
  /\ inflight = {}
  /\ did = {}
  /\ lastStage = 0
  /\ faulty = {}
  /\ exitCode = -1
  /\ why = "running"
  /\ run = 1
  /\ after1 = NoFile
  /\ dl = Idle
  /\ procs = [p \in Procs |-> [NoProcs[p] EXCEPT !.pc = "boot"]]
  /\ bump = NoBump

NextRace ==
  \/ \E p \in Procs : RaceLoad(p)
  \/ \E p \in Procs : RaceAdd(p)
  \/ \E p \in Procs : RaceOpen(p)
  \/ \E p \in Procs : RaceWrite(p)

SpecRace == InitRace /\ [][NextRace]_vars


---------------------------------------------------------------------------
(* scripts/update-version.js                                               *)

MaxArgLen == 6         \* longest version argument

\* The characters of an argument: two digits, the dot and a letter.
Chars == {"0", "1", ".", "v"}
Digits == {"0", "1", "2", "3", "4", "5", "6", "7", "8", "9"}

RECURSIVE Strings(_)
Strings(n) ==
  IF n = 0 THEN {<<>>}
  ELSE LET shorter == Strings(n - 1)
       IN shorter \cup {Append(s, c) : s \in {x \in shorter : Len(x) = n - 1},
                                        c \in Chars}

\* process.argv[2]: undefined, or a string.
Args ==
  {[given |-> FALSE, text |-> <<>>]}
  \cup {[given |-> TRUE, text |-> s] : s \in Strings(MaxArgLen)}

\* /^\d+\.\d+\.\d+$/ read one character at a time.  In states 1, 3 and 5
\* the pattern is inside its first, second and third \d+; in 0, 2 and 4 it
\* needs a first digit; 6 is the failure to match.  With the pattern
\* anchored at both ends the whole string is read.
Step(q, c) ==
  CASE q \in {0, 1} /\ c \in Digits -> 1
    [] q \in {2, 3} /\ c \in Digits -> 3
    [] q \in {4, 5} /\ c \in Digits -> 5
    [] q = 1 /\ c = "." -> 2
    [] q = 3 /\ c = "." -> 4
    [] OTHER -> 6

RECURSIVE Scan(_, _, _)
Scan(s, i, q) == IF i > Len(s) THEN q ELSE Scan(s, i + 1, Step(q, s[i]))

\* The pattern without its $: a prefix of the string may match.
TestUnanchored(s) == \E n \in 0..Len(s) : Scan(SubSeq(s, 1, n), 1, 0) = 5

\* /^\d+\.\d+\.\d+$/.test(newVersion)
Test(s) == Scan(s, 1, 0) = 5

\* filesToUpdate
filesToUpdate == <<"package.json", "README.md", "scripts/install.js">>

\* What happens to one file: it is not there; readFileSync, update (the
\* JSON.parse of package.json) or writeFileSync raises; or it is updated.
FileOutcomes ==
  {"missing", "read failed", "update failed", "write failed", "updated"}

MessageFor(o) ==
  CASE o = "missing" -> "File not found"
    [] o = "updated" -> "Updated"
    [] OTHER -> "Failed to update"

\* The files an outcome has read or written.
Touches(path, o) == IF o = "missing" THEN {} ELSE {path}

BumpFixed ==
  UNCHANGED <<file, log, now, pc, mode, calls, fails, loaded, loadResult,
              lastGood, lastWrite, platform, prog, env, env0, inflight, did,
              lastStage, faulty, exitCode, why, run, after1, file0, budget,
              dl, procs>>

\* Lines 8-20: the two tests of the argument.
BumpValidate ==
  /\ bump.pc = "start"
  /\ bump' =
       IF ~bump.arg.given \/ bump.arg.text = <<>>
       THEN [bump EXCEPT !.pc = "exit", !.exitCode = 1,
                         !.messages = Append(@, "Usage")]
       ELSE IF ~Test(bump.arg.text)
       THEN [bump EXCEPT !.pc = "exit", !.exitCode = 1,
                         !.messages = Append(@, "Invalid version format")]
       ELSE [bump EXCEPT !.pc = "files", !.k = 1,
                         !.messages = Append(@, "Updating")]
  /\ BumpFixed

\* One round of filesToUpdate.forEach.
BumpFile ==
  /\ bump.pc = "files"
  /\ \E o \in FileOutcomes :
       bump' = [bump EXCEPT
         !.results = Append(@, o),
         !.messages = Append(@, MessageFor(o)),
         !.touched = @ \cup Touches(filesToUpdate[bump.k], o),
         !.k = @ + 1,
         !.pc = IF bump.k = Len(filesToUpdate) THEN "lock" ELSE "files"]
  /\ BumpFixed

\* execSync('npm install'), whose failure is a warning, and the end of the
\* script.
BumpLock ==
  /\ bump.pc = "lock"
  /\ \E ok \in BOOLEAN :
       bump' = [bump EXCEPT
         !.pc = "done", !.exitCode = 0,
         !.touched = IF ok THEN @ \cup {"package-lock.json"} ELSE @,
         !.messages = Append(@, IF ok THEN "Updated package-lock.json"
                                ELSE "Could not update package-lock.json")]
  /\ BumpFixed

InitBump ==
  /\ file = NoFile
  /\ mode = "bump"
  /\ platform = "linux"
  /\ env = Env("absent", "absent", "absent", "plain", 0)
  /\ budget = 0
  /\ file0 = file
  /\ log = DefaultLog(0)
  /\ now = MaxStamp + 1
  /\ pc = "boot"
  /\ calls = 0
  /\ fails = 0
  /\ loaded = DefaultLog(0)
  /\ loadResult = "none"
  /\ lastGood = file
  /\ lastWrite = "none"
  /\ prog = Prog0
  /\ env0 = env
  /\ inflight = {}
  /\ did = {}
  /\ lastStage = 0
  /\ faulty = {}
  /\ exitCode = -1
  /\ why = "running"
  /\ run = 1
  /\ after1 = NoFile
  /\ dl = Idle
  /\ procs = NoProcs
  /\ bump \in {[NoBump EXCEPT !.arg = a, !.pc = "start"] : a \in Args}

NextBump == BumpValidate \/ BumpFile \/ BumpLock

SpecBump == InitBump /\ [][NextBump]_vars

---------------------------------------------------------------------------
(* Properties of the installation log.                                     *)

Constructed == pc # "boot"

ReconciledFrom(s, u) ==
  /\ Names(u) = Names(s)
  /\ NoDuplicates(u)
  /\ \A k \in 1..Len(u) :
       /\ \E i \in 1..Len(s) : s[i] = u[k]
       /\ \A i \in 1..Len(s) :
            s[i].name = u[k].name => s[i].installedAt <= u[k].installedAt

\* C2 as stated: when load() finds a persisted record (a JSON value with
\* both collections), cleanupDuplicates leaves, for every name, exactly one
\* entry, the one with the greatest installedAt; entries of names that
\* occurred once are unchanged.
C2_KeepsLatest ==
  [][(pc = "boot" /\ LoadSucceeds(file)) =>
       /\ ReconciledFrom(file.rec.pythonPackages, log'.pythonPackages)
       /\ ReconciledFrom(file.rec.fonts, log'.fonts)]_vars

---------------------------------------------------------------------------
(* Properties of the installer.                                            *)

Range(s) == {s[i] : i \in 1..Len(s)}

\* The packages that are not in s, in list order.
Rest(s) == SelectSeq(Packages, LAMBDA n : n \notin Range(s))

\* PackageInstaller.install has returned.
AfterDeps ==
  /\ mode = "main"
  /\ pc \in {"model", "shell", "shellappend", "npm", "npmlist1", "npmlist2",
             "npminstall", "npmprefix", "final", "setupvox", "done"}

\* C3 as stated: when install() has returned, every package was attempted
\* once in list order, this.failed and this.installed split the list, each in
\* list order (failed being the packages whose command failed, installed the
\* others), and every installed package has an entry in pythonPackages.
C3_FailureIsolation ==
  AfterDeps =>
     /\ prog.attempted = Packages
     /\ prog.failed = Rest(prog.installed)
     /\ prog.installed = Rest(prog.failed)
     /\ \A n \in Range(prog.installed) :
          CanAddPackage(log) /\ n \in Names(log.pythonPackages)

\* The last candidate's version query has settled, none was accepted, and the
\* platform has no provisioning path.
RuntimeMissing ==
  /\ mode = "main"
  /\ platform # "darwin"
  /\ prog.pythonCmd = "null"
  /\ Op("runtime", "--version", Len(PYTHON_COMMANDS)) \in did \ inflight

\* C4: when no candidate qualifies on a platform other than darwin, the
\* process has exited with code 1 having started nothing but the version
\* queries: the environment (venv directory, font cache, scratch
\* directories, profile) is as the process found it, and the log in memory
\* and the persisted file are as the constructor left them.
C4_FatalRuntimeAbsence ==
  RuntimeMissing =>
     /\ pc = "exit" /\ exitCode = 1
     /\ inflight = {}
     /\ \A op \in did : op.stage = "runtime" /\ op.cmd = "--version"
     /\ env = env0
     /\ log = loaded
     /\ file = file0

\* C4 witness: such an exit, after a load that reconciled a persisted record.
C4_Witness ==
  /\ RuntimeMissing
  /\ pc = "exit" /\ why = "no runtime"
  /\ loadResult = "ok"

\* The command creating the environment has settled and has not made a
\* working environment directory.
VenvCreationFailed ==
  /\ mode = "main"
  /\ Op("venv", "-m venv", 0) \in did \ inflight
  /\ env.venvDir # "ready"

\* C5: when creating the environment fails, setupVirtualEnvironment has
\* returned null and the process has exited with code 1; no operation of the
\* font, dependency, model, shell or registration stages was started, the
\* font cache and the profile are as the process found them, and the
\* virtualEnv component, in memory and in the file, is the one the
\* constructor loaded.
C5_FatalEnvironmentFailure ==
  VenvCreationFailed =>
     /\ pc = "exit" /\ exitCode = 1
     /\ prog.venvPython = "null"
     /\ inflight = {}
     /\ \A op \in did : op.stage \in {"runtime", "venv"}
     /\ env.cache = env0.cache /\ env.tempDirs = env0.tempDirs
     /\ env.profile = env0.profile /\ env.backup = env0.backup
     /\ log.hasComps => log.comps.virtualEnv = loaded.comps.virtualEnv
     /\ (file.kind = "json" /\ file.rec.hasComps) =>
          file.rec.comps.virtualEnv = loaded.comps.virtualEnv

\* C5 witness: the exit after a failed creation, on a machine whose runtime
\* Homebrew has just installed.
C5_Witness ==
  /\ VenvCreationFailed
  /\ pc = "exit" /\ why = "venv creation failed"
  /\ Op("runtime", "brew link python", 0) \in did

\* C6: an external operation starts only when no other is in flight, and
\* its stage is not before the stage of the operation started last: every
\* operation of the earlier stages has settled.
C6_StagesSequential ==
  [][\A op \in inflight' \ inflight :
       inflight = {} /\ StageIdx(op.stage) >= lastStage]_vars

\* C6 witness: the alias setup is running, alone, after operations of all
\* seven stages before it.
C6_Witness ==
  /\ inflight = {Op("alias", "setup-vox", 0)}
  /\ lastStage = Len(Stages)
  /\ \A k \in 1..Len(Stages) : \E op \in did : op.stage = Stages[k]

\* C7: for a font whose cache file exists when the process starts (nothing
\* before installFonts touches the cache), the process makes no scratch
\* directory, starts no download and no extraction and copies nothing for
\* it, and the cache file stays the one that was there.
C7_CacheSkip ==
  mode = "main" =>
     \A k \in 1..Len(FONTS) :
        env0.cache[k] = "cached" =>
           /\ \A op \in did : op.stage = "fonts" => op.arg # k
           /\ env.cache[k] = "cached"
           /\ k \notin env.tempDirs

\* C7 witness: a run that has ended, having skipped the first font and
\* fetched the second, with the dependencies installed after the fonts.
C7_Witness ==
  /\ pc = "done"
  /\ env0.cache = <<"cached", "absent">>
  /\ env.cache = <<"cached", "fetched">>
  /\ Op("fonts", "download", 2) \in did
  /\ Len(prog.installed) = Len(Packages)

\* C8 as stated: the persisted file is always a complete record, the one of
\* the last save that succeeded (or the file the process found), never a
\* truncated one.
C8_AtomicWrite == file = lastGood

StripEntry(e) == [e EXCEPT !.installedAt = 0]

StripComponent(c) ==
  IF "installedAt" \in DOMAIN c THEN [c EXCEPT !.installedAt = 0] ELSE c

\* The persisted file with its timestamp fields blanked.
StripTimestamps(f) ==
  IF f.kind # "json" THEN f
  ELSE [f EXCEPT
          !.rec.installedAt = 0,
          !.rec.pythonPackages = [i \in DOMAIN @ |-> StripEntry(@[i])],
          !.rec.fonts = [i \in DOMAIN @ |-> StripEntry(@[i])],
          !.rec.comps = [c \in DOMAIN @ |-> StripComponent(@[c])]]

\* C9: in a provisioned environment where nothing fails, when the second
\* process (or a later one) has ended, the persisted file equals, timestamps
\* aside, the file the first process left, and its pythonPackages and fonts
\* have no repeated name.
C9_PipelineIdempotence ==
  (mode = "main" /\ run >= 2 /\ exitCode # -1) =>
     /\ StripTimestamps(file) = StripTimestamps(after1)
     /\ file.kind = "json" =>
          /\ NoDuplicates(file.rec.pythonPackages)
          /\ NoDuplicates(file.rec.fonts)

\* C9 witness: the second process has ended with every package logged, and
\* the two files do differ in a timestamp.
C9_Witness ==
  /\ run = 2 /\ pc = "done"
  /\ file.kind = "json" /\ after1.kind = "json"
  /\ Names(file.rec.pythonPackages) = Range(Packages)
  /\ file.rec.installedAt # after1.rec.installedAt

\* C10 as stated: when the file exists but is not loaded and reconciled, the
\* record in memory after the constructor is the default record.
C10_FallsBackToDefaults ==
  (Constructed /\ loadResult \in {"unparsed", "aborted"}) =>
     \E t \in 0..now : loaded = DefaultLog(t)

---------------------------------------------------------------------------
(* Properties of the log's methods.                                        *)

\* C11 as stated: every step in which load() runs cleanupDuplicates on a
\* parsed file, or in which addPythonPackage, addFont or setComponent changes
\* the record, and in which no write fails, leaves the persisted file equal
\* to the record in memory.
C11_WriteThrough ==
  [][(/\ \/ pc = "boot" /\ file.kind = "json"
         \/ pc = "api" /\ pc' = "api" /\ log' # log
      /\ fails' = fails)
       => file' = Serialize(log')]_vars

\* s2 is s after an upsert at time t of some name, with a version (or path)
\* of V: an entry of that name, if there is one, is replaced where it stands
\* by an entry stamped t and nothing else changes; otherwise one entry
\* stamped t is appended and nothing else changes.
Upserted(s, s2, t, V) ==
  \E n \in PkgNames \cup FontNames :
     IF n \in Names(s)
     THEN /\ Len(s2) = Len(s)
          /\ \E i \in 1..Len(s) :
               /\ s[i].name = n
               /\ s2[i].name = n /\ s2[i].ver \in V /\ s2[i].installedAt = t
               /\ \A j \in 1..Len(s) : j # i => s2[j] = s[j]
     ELSE /\ Len(s2) = Len(s) + 1
          /\ s2[Len(s2)].name = n /\ s2[Len(s2)].ver \in V
          /\ s2[Len(s2)].installedAt = t
          /\ \A j \in 1..Len(s) : s2[j] = s[j]

\* C12: a call of addPythonPackage (addFont) changes pythonPackages (fonts)
\* as an upsert does: replacement in place with a fresh installedAt when the
\* name is there, one entry appended when it is not; the other entries, and
\* the other collection, are unchanged.
C12_UpsertSemantics ==
  [][(pc = "api" /\ pc' = "api") =>
       /\ log'.pythonPackages # log.pythonPackages =>
            /\ Upserted(log.pythonPackages, log'.pythonPackages, now, ApiVersions)
            /\ log'.fonts = log.fonts
       /\ log'.fonts # log.fonts =>
            /\ Upserted(log.fonts, log'.fonts, now, ApiPaths)
            /\ log'.pythonPackages = log.pythonPackages]_vars

\* C12 witness: addFont has replaced the first of two loaded fonts where it
\* stood, and the second is still the loaded one.
C12_Witness ==
  /\ pc = "api" /\ loadResult = "ok" /\ calls = 1
  /\ Len(log.fonts) = 2
  /\ log.fonts[1].ver \in ApiPaths /\ log.fonts[1].installedAt = now - 1
  /\ log.fonts[2] = loaded.fonts[2]
  /\ log.fonts[1].name = loaded.fonts[1].name


\* The record apart from its components.
Frame(l) ==
  <<l.pythonPackages, l.fonts, l.installedAt,
    l.hasComps, l.hasPkgs, l.hasFonts>>

\* l2 is l after data were merged into component c and nothing else moved.
MergedInto(l, l2, c, data) ==
  /\ DOMAIN l2.comps = DOMAIN l.comps \cup {c}
  /\ DOMAIN l2.comps[c] =
       DOMAIN data \cup (IF c \in DOMAIN l.comps THEN DOMAIN l.comps[c] ELSE {})
  /\ \A f \in DOMAIN data : l2.comps[c][f] = data[f]
  /\ c \in DOMAIN l.comps =>
       \A f \in DOMAIN l.comps[c] \ DOMAIN data : l2.comps[c][f] = l.comps[c][f]
  /\ \A k \in DOMAIN l.comps \ {c} : l2.comps[k] = l.comps[k]
  /\ Frame(l2) = Frame(l)

\* C13: a setComponent call that returns leaves the named component with
\* every field of the data at the data's value and every other field it had
\* at its old value, and leaves every other component, both collections and
\* the root fields as they were.
C13_FieldwiseMerge ==
  [][(pc = "api" /\ pc' = "api" /\ log'.comps # log.comps) =>
       \E c \in DOMAIN ApiComponentData :
          MergedInto(log, log', c, ApiComponentData[c])]_vars

\* C13 witness: python was given a status without a path and kept the path
\* it had, beside a whisperModel component that the record gained.
C13_Witness ==
  /\ pc = "api" /\ calls = 2
  /\ log.comps.python = [installed |-> TRUE, version |-> "3.11", path |-> "null"]
  /\ "whisperModel" \in DOMAIN log.comps
  /\ log.comps.virtualEnv = DefaultComps.virtualEnv


\* C14 (as amended): a reconciliation that runs to its end sets the root
\* installedAt to the time it ran, which is later than the installedAt the
\* file held, and addPythonPackage, addFont and setComponent leave the root
\* installedAt as it was.
C14_RootTimestamp ==
  [][/\ (pc = "boot" /\ LoadSucceeds(file)) =>
          /\ log'.installedAt = now + 1
          /\ log'.installedAt > file.rec.installedAt
          /\ fails' = fails => file'.rec.installedAt = now + 1
     /\ (pc = "api" /\ pc' = "api") => log'.installedAt = log.installedAt]_vars

\* C14 witness: a package was recorded, the installer was started again, and
\* the reconciliation of the second run stamped the root later than the
\* entry and the file's previous root.
C14_Witness ==
  /\ pc = "api" /\ loadResult = "ok" /\ calls = 2
  /\ log.installedAt = now - 1
  /\ \E i \in 1..Len(log.pythonPackages) :
       /\ log.pythonPackages[i].ver \in ApiVersions
       /\ log.pythonPackages[i].installedAt < log.installedAt
       /\ log.pythonPackages[i].installedAt > 1

\* C14 as stated: after each mutation the root installedAt is at least as
\* recent as the mutation.
C14_AsStated ==
  [][(pc = "api" /\ pc' = "api" /\ log' # log) => log'.installedAt >= now]_vars


---------------------------------------------------------------------------
(* Properties of the font stage.                                           *)

\* The process is over and it was not ended by a missing runtime or a
\* failed environment.
EndedPastVenv == mode = "main" /\ exitCode # -1 /\ pc # "exit"

\* C15 as stated: whatever failed while the fonts were fetched, a process
\* that got past the environment has attempted every font that was not
\* cached and has gone on to install the dependencies.
C15_AssetFailuresIsolated ==
  EndedPastVenv =>
     /\ \A k \in 1..Len(FONTS) :
          NeedsFetch(env0.cache[k]) => Op("fonts", "mkdtemp", k) \in did
     /\ Op("deps", "pip install", 1) \in did


\* No font is being fetched: installFonts is between two fonts, or over.
BetweenFetches == mode = "main" /\ pc \notin {"download", "extract", "stalled"}

\* C16 as stated: when the fetch of a font has ended, by whichever path, the
\* scratch directory made for it is gone.
C16_ScratchCleanup == BetweenFetches => env.tempDirs = {}


\* The statuses 2xx.
Success == 200..299

\* The call has had a response that is not a redirect it follows.
Answered == dl.promise # "none" /\ dl.status \notin Followed \cup {0}

\* C17: when the response that ends a download has a status outside 2xx, the
\* promise is rejected, dest is removed, and the font gets no file in the
\* cache and no entry in the log; when the status is 2xx, the promise is
\* resolved only if the whole body is in dest.
C17_DownloadIntegrity ==
  /\ (Answered /\ dl.status \notin Success) =>
        /\ dl.promise = "rejected"
        /\ dl.dest = "absent"
        /\ pc = "font"
        /\ LET k == prog.i - 1
           IN /\ env.cache[k] = "absent"
              /\ Op("fonts", "copy", k) \notin did
              /\ \A e \in Range(log.fonts) :
                   e.name = FONTS[k] => e \in Range(loaded.fonts)
  /\ (Answered /\ dl.status \in Success /\ dl.promise = "resolved") =>
        dl.dest = "whole"

\* C17 witness: the first font's download was redirected and then answered
\* with 404.
C17_Witness ==
  /\ pc = "font" /\ prog.i = 2
  /\ dl.status = 404 /\ dl.url = 1 /\ dl.promise = "rejected"
  /\ env.cache[1] = "absent"


\* The statuses that redirect to the Location of the response.
Redirects == {301, 302, 303, 307, 308}

\* C18 as stated: a download answered with a redirect goes on with the
\* Location, for the same dest, and its promise stays pending until the
\* chain has ended.
C18_FollowsRedirects ==
  [][(pc = "download" /\ dl' # dl /\ dl'.status \in Redirects) =>
       /\ dl'.url = dl.url + 1
       /\ dl'.promise = "pending"
       /\ pc' = "download"]_vars


---------------------------------------------------------------------------
(* Properties of the shell profile stage.                                  *)

\* C19: when the profile read by updateShellConfig has the marker, no backup
\* is made, nothing is appended and the log is not touched; and over all
\* the processes of a behaviour the block is appended at most once.
C19_ProfileGate ==
  [][/\ (pc = "shell" /\ pc' # "shell" /\ env.profile = "configured") =>
          /\ env' = env
          /\ log' = log /\ file' = file
          /\ Op("shell", "backup", 0) \notin did'
          /\ pc' = "npm"
     /\ env'.blocks <= 1]_vars

\* C19 witness: the first process appended the block, and the second one
\* read the profile, made no backup and ended with the one block.
C19_Witness ==
  /\ run = 2 /\ pc = "done"
  /\ env.blocks = 1 /\ env0.profile = "configured"
  /\ Op("shell", "read profile", 0) \in did
  /\ Op("shell", "backup", 0) \notin did


\* C20: a step that appends the block finds a backup that this process
\* wrote and that holds what the profile holds before the append, and
\* leaves it as it is; the path recorded in the shellConfig component is the
\* path of that backup; and as long as the process has made no backup, a
\* failed copy included, the profile is as the process found it.
C20_BackupBeforeMutation ==
  [][/\ env'.blocks # env.blocks =>
          /\ env.backup # <<>>
          /\ Op("shell", "backup", 0) \in did
          /\ env.backupOf = env.profile
          /\ env'.backup = env.backup /\ env'.backupOf = env.backupOf
          /\ CanSetComponent(log) =>
               log'.comps.shellConfig = [modified |-> TRUE,
                                         backupPath |-> env.backup]
     /\ Op("shell", "backup", 0) \notin did' =>
          /\ env'.profile = env0'.profile
          /\ env'.blocks = 0]_vars

\* C20 witness: the block was appended to a plain profile after a backup of
\* the plain profile, and the component holds the backup's path.
C20_Witness ==
  /\ mode = "main" /\ pc = "npm"
  /\ env0.profile = "plain" /\ env.profile = "configured" /\ env.blocks = 1
  /\ env.backupOf = "plain" /\ Len(env.backup) = 1
  /\ log.comps.shellConfig = [modified |-> TRUE, backupPath |-> env.backup]


\* A step of updateShellConfig in which the read, the backup or the append
\* failed: the profile is missing, or the profile needed the block and the
\* step leaves it without.
ShellStepFailed ==
  /\ mode = "main" /\ pc \in {"shell", "shellappend"} /\ pc' # pc
  /\ \/ env.profile = "missing"
     \/ env.profile = "plain" /\ env'.profile = "plain"
        /\ pc' # "shellappend"

\* C21: when reading, backing up or appending to the profile fails, the
\* process goes on to installNpmPackage still running, and the log is as it
\* was.
C21_ShellFailureRecoverable ==
  [][ShellStepFailed =>
       /\ pc' = "npm" /\ exitCode' = -1
       /\ log' = log /\ file' = file]_vars

\* C21 witness: the backup was made, the append failed, and the process is
\* at installNpmPackage with the component as it was loaded.
C21_Witness ==
  /\ mode = "main" /\ pc = "npm" /\ exitCode = -1
  /\ env.profile = "plain" /\ env.backup # <<>>
  /\ "shell" \in faulty
  /\ log.comps.shellConfig = loaded.comps.shellConfig


---------------------------------------------------------------------------
(* Properties of the global registration and of the end of main().         *)

\* installNpmPackage has returned after its query of the global prefix.
AfterPrefix ==
  /\ mode = "main" /\ pc \in {"final", "setupvox", "done"}
  /\ Op("registration", "npm prefix -g", 0) \in did

\* C22: once the package directory was found and the prefix was
\* asked for, installNpmPackage has returned true exactly when one of the
\* candidate command paths exists, and then the npmPackage component says
\* installed.
C22_DecidedByPathExistence ==
  /\ AfterPrefix =>
        /\ prog.npmInstalled = prog.voxFound
        /\ prog.voxFound =>
             CanSetComponent(log) /\ log.comps.npmPackage.installed
  /\ (mode = "main" /\ Op("registration", "find package", 0) \in did) =>
        pc # "exit"

\* C22 witness: npm install -g failed, a candidate path exists all the same,
\* and installNpmPackage returned true with the component set.
C22_Witness ==
  /\ AfterPrefix /\ prog.voxFound /\ prog.npmInstalled
  /\ "registration" \in faulty /\ fails = 0
  /\ log.comps.npmPackage.installed


\* The stages that main() goes on after when they fail.
RecoverableStages == {"fonts", "deps", "model", "shell", "registration"}

\* C23 as stated: a process that printed its final message reported full
\* success only if no font, no dependency, the model download, the profile
\* and the registration failed.
C23_FinalStatusIsSummary ==
  (mode = "main" /\ prog.banner = "SUCCESS!") =>
     faulty \cap RecoverableStages = {}


---------------------------------------------------------------------------
(* Properties of the runtime stage.                                        *)

\* The candidate just probed was selected.
SelectedNow ==
  pc = "pip" /\ prog.pythonCmd = PYTHON_COMMANDS[prog.i]

\* C24 as stated: a candidate that reported a version is selected exactly
\* when the version is at least 3.8 in version order.
C24_ProbeSelection ==
  (mode = "main" /\ prog.probed.kind = "version") =>
     (SelectedNow <=> AtLeast38(prog.probed))


\* The commands of the provisioning path: the package manager's presence
\* check, its bootstrap, and the runtime's installation.
ProvisioningCmds ==
  {"brew --version", "install homebrew", "brew update", "brew install python",
   "brew link python"}

\* C25 as stated: when some candidate qualifies, no command of the
\* provisioning path is started and the homebrew and python components are
\* as the constructor left them.
C25_ShortCircuit ==
  (mode = "main" /\ prog.qualified) =>
     /\ \A op \in did : op.cmd \notin ProvisioningCmds
     /\ log.comps.homebrew = loaded.comps.homebrew
     /\ log.comps.python = loaded.comps.python


\* The version query of candidate prog.i settles in this step.
ProbeSettles ==
  /\ mode = "main" /\ pc = "probe"
  /\ Op("runtime", "--version", prog.i) \in inflight \ inflight'

\* C26: a candidate whose query fails, prints no version that parses or
\* reports less than 3.8 is not selected and raises nothing: the loop goes
\* on to the next candidate, and after the last one ensurePython is at the
\* code after the loop with no command, which provisions on darwin and
\* returns null elsewhere.
C26_ProbeFailuresNotRaised ==
  [][(ProbeSettles /\ ~(prog'.probed.kind = "version" /\ AtLeast38(prog'.probed))) =>
       /\ prog'.pythonCmd = "null"
       /\ why' # "exception"
       /\ IF prog.i < Len(PYTHON_COMMANDS)
          THEN pc' = "probe" /\ prog'.i = prog.i + 1
          ELSE /\ pc' = IF platform = "darwin" THEN "brewcheck" ELSE "exit"
               /\ pc' = "exit" => why' = "no runtime"]_vars

\* C26 witness: the three candidates were probed, the last printed no
\* version that parses, and ensurePython is after the loop with no command.
C26_Witness ==
  /\ mode = "main" /\ pc = "brewcheck"
  /\ prog.i = Len(PYTHON_COMMANDS) /\ prog.probed.kind = "garbled"
  /\ prog.pythonCmd = "null" /\ ~prog.qualified


---------------------------------------------------------------------------
(* Properties of a run whose writes of the file fail.                      *)

\* The component that the step at program point l sets.
ComponentSetAt(l) ==
  CASE l = "brewinstall" -> "homebrew"
    [] l = "brewlink"    -> "python"
    [] l = "pipupgrade"  -> "virtualEnv"
    [] l = "model"       -> "whisperModel"
    [] l = "shellappend" -> "shellConfig"
    [] l = "npmprefix"   -> "npmPackage"
    [] OTHER             -> "none"

\* The flag a component carries once it was set.
IsSet(c) ==
  \/ "installed" \in DOMAIN c /\ c.installed
  \/ "modified" \in DOMAIN c /\ c.modified
  \/ "downloaded" \in DOMAIN c /\ c.downloaded

\* C27: a step of main() whose write of the file fails raises nothing:
\* the process is still running with no exit status, the record in memory
\* holds the entry or the component that the step put there, and the
\* package just installed is in this.installed and not in this.failed.
C27_SaveFailureIsWarning ==
  [][(mode = "main" /\ fails' > fails) =>
       /\ exitCode' = -1 /\ why' = why /\ pc' \notin {"exit", "stalled"}
       /\ pc = "boot" => log' = cleanupDuplicates(file.rec, now + 1)
       /\ pc = "pipshow" =>
            /\ \E e \in Range(log'.pythonPackages) :
                  e.name = Packages[prog.i] /\ e.installedAt = now
            /\ Packages[prog.i] \in Range(prog'.installed)
            /\ Packages[prog.i] \notin Range(prog'.failed)
            /\ pc' = AfterPackage(prog.i)
       /\ pc = "extract" =>
            \E e \in Range(log'.fonts) :
               e.name = FONTS[prog.i] /\ e.installedAt = now
       /\ ComponentSetAt(pc) # "none" =>
            /\ ComponentSetAt(pc) \in DOMAIN log'.comps
            /\ IsSet(log'.comps[ComponentSetAt(pc)])
       /\ pc = "npmprefix" => prog'.npmInstalled
       /\ pc = "pipupgrade" => pc' = "font"]_vars

\* C27 witness: the write of the last package's entry failed, the entry is
\* in memory and not in the file, and install() has gone on to its end with
\* every package installed and none failed.
C27_Witness ==
  /\ mode = "main" /\ pc = "model" /\ fails = 1
  /\ "deps" \in faulty
  /\ prog.installed = Packages /\ prog.failed = <<>>
  /\ Names(log.pythonPackages) = Range(Packages)
  /\ file # Serialize(log)


---------------------------------------------------------------------------
(* More properties of the font stage.                                      *)

\* C28: when the archive was extracted and holds no regular variant,
\* nothing is copied to the font's cache path, the log is as it was, the
\* font is still missing from the cache, and installFonts is at the next
\* font with the process running.
C28_NoMatchingFile ==
  [][(mode = "main" /\ pc = "extract" /\ prog'.regularFont = "undefined") =>
       LET k == prog.i
       IN /\ env'.cache = env.cache
          /\ NeedsFetch(env'.cache[k])
          /\ Op("fonts", "copy", k) \notin did'
          /\ log' = log /\ file' = file
          /\ pc' = "font" /\ prog'.i = k + 1
          /\ exitCode' = -1]_vars

\* C28 witness: the first font's archive held no regular variant, and the
\* second font is being fetched.
C28_Witness ==
  /\ mode = "main" /\ pc = "download" /\ prog.i = 2
  /\ env.cache[1] = "absent" /\ env0.cache[1] = "absent"
  /\ Op("fonts", "extract", 1) \in did \ inflight
  /\ 1 \notin env.tempDirs
  /\ FONTS[1] \notin Names(log.fonts)


---------------------------------------------------------------------------
(* More properties of the dependency stage.                                *)

\* C29: at most one pip install is in flight at any time; the pip install
\* of a package starts when nothing else is in flight, after the pip
\* install of the package before it has settled and, when that one
\* succeeded, after its version query has settled and its entry is in the
\* log.
C29_OneInstallAtATime ==
  [][/\ Cardinality({op \in inflight' : op.cmd = "pip install"}) <= 1
     /\ \A op \in inflight' \ inflight :
          (op.cmd = "pip install" /\ op.arg > 1) =>
             LET before == op.arg - 1
             IN /\ inflight = {}
                /\ Op("deps", "pip install", before) \in did
                /\ Packages[before] \in Range(prog.installed) =>
                     /\ Op("deps", "pip show", before) \in did
                     /\ CanAddPackage(log) =>
                          Packages[before] \in Names(log.pythonPackages)]_vars

\* C29 witness: the second package's pip install is in flight, alone, after
\* the first package was installed, queried and logged.
C29_Witness ==
  /\ inflight = {Op("deps", "pip install", 2)}
  /\ Packages[1] \in Range(prog.installed)
  /\ Op("deps", "pip show", 1) \in did
  /\ Packages[1] \in Names(log.pythonPackages)


---------------------------------------------------------------------------
(* More properties of the runtime stage.                                   *)

\* The commands of installPythonViaHomebrew.
RuntimeInstallCmds == {"brew update", "brew install python", "brew link python"}

\* checkHomebrew has returned.
BrewChecked == Op("runtime", "brew --version", 0) \in did \ inflight

\* C30: on the provisioning path, taken on darwin with no command selected,
\* Homebrew's installer is started only after checkHomebrew returned false;
\* a command of installPythonViaHomebrew is started only after checkHomebrew
\* returned true or the installer has ended with success and the homebrew
\* component was set; and the python component changes only in the step in
\* which the last of these commands succeeds.
C30_BootstrapOrdering ==
  [][/\ \A op \in inflight' \ inflight :
          /\ op.cmd = "install homebrew" =>
               /\ platform = "darwin" /\ prog.pythonCmd = "null"
               /\ BrewChecked /\ ~prog.hasHomebrew
          /\ op.cmd \in RuntimeInstallCmds =>
               /\ platform = "darwin" /\ prog.pythonCmd = "null"
               /\ BrewChecked
               /\ \/ prog.hasHomebrew
                     /\ Op("runtime", "install homebrew", 0) \notin did
                  \/ /\ Op("runtime", "install homebrew", 0) \in did \ inflight
                     /\ log.comps.homebrew.installed
     /\ log'.comps.python # log.comps.python =>
          /\ pc = "brewlink" /\ pc' = "pip"
          /\ prog'.pythonCmd = "python3.11" /\ env'.python = 1
          /\ log'.comps.python.installed]_vars

\* C30 witness: Homebrew was missing and was installed, the three commands
\* ran, and the python component says installed by the installer.
C30_Witness ==
  /\ mode = "main" /\ pc = "pip" /\ platform = "darwin"
  /\ Op("runtime", "install homebrew", 0) \in did
  /\ Op("runtime", "brew link python", 0) \in did
  /\ log.comps.homebrew.installed
  /\ log.comps.python.installed /\ log.comps.python.installedByKoshi

---------------------------------------------------------------------------
(* Properties of two installers sharing the installation file.             *)

Racing == mode = "race"

\* C31: under every interleaving of the reads, opens and writes of two
\* installer processes, whenever the last write of the installation file
\* wrote a process's whole record and no write has failed, the file holds
\* no two pythonPackages entries of one name and no two fonts entries of
\* one name.
C31_NoDuplicateUnderRace ==
  (Racing /\ fails = 0 /\ lastWrite = "ok" /\ file.kind = "json") =>
     /\ NoDuplicates(file.rec.pythonPackages)
     /\ NoDuplicates(file.rec.fonts)

\* C31, for the processes whose load() did not abort.
C31_Reconciled ==
  (\A p \in Procs : procs[p].loadResult # "aborted") => C31_NoDuplicateUnderRace

\* C31, the lost update: both processes are done, every write succeeded,
\* process 1 recorded and saved a package, and the file does not hold it.
C31_LostUpdate ==
  /\ Racing /\ fails = 0 /\ file.kind = "json"
  /\ \A p \in Procs : procs[p].pc = "ready" /\ procs[p].calls = MaxRaceCalls
  /\ \E i \in 1..Len(procs[1].log.pythonPackages) :
       /\ procs[1].log.pythonPackages[i].ver \in ApiVersions
       /\ procs[1].log.pythonPackages[i].name
            \notin Names(file.rec.pythonPackages)

---------------------------------------------------------------------------
(* Termination.                                                            *)

\* A redirect whose Location names the font's first url again: the call
\* goes round, each request answered in turn.
DownloadAgain ==
  /\ Awaited("download")
  /\ dl.url > 0
  /\ \E s \in Followed :
       dl' = [HandleResponse(dl, [status |-> s, body |-> "none"])
                EXCEPT !.url = 0]
  /\ UNCHANGED <<pc, exitCode, prog, why, env, did, faulty>>
  /\ Sync /\ NoLogCall /\ FixedRun

InitLive ==
  /\ file \in {NoFile}
  /\ mode = "main"
  /\ platform \in {"darwin", "linux"}
  /\ env \in {Env("absent", "absent", "absent", "plain", 0),
              Env("ready", "cached", "absent", "missing", 2)}
  /\ budget = MaxFaultyStages
  /\ file0 = file
  /\ InitPipe

NextLive == Next \/ DownloadAgain

\* Node runs a callback that is ready, and every command and every request
\* is answered: a step that stays possible is taken.
SpecLive == InitLive /\ [][NextLive]_vars /\ WF_vars(NextLive)

\* C32: every downloadFile call eventually resolves or rejects.
C32_DownloadSettles == (dl.promise = "pending") ~> (dl.promise # "pending")

\* C32: main() eventually ends, by an exit of the process or by running to
\* its end.
C32_MainTerminates == <>(exitCode # -1)


\* C33: when PackageInstaller.install has returned, no name is in both
\* this.installed and this.failed, the two together hold exactly the names of
\* the package list, and the value returned (this.failed is empty) is true
\* exactly when every install command succeeded, whatever the installation
\* file held at the start.
C33_OutcomePartition ==
  AfterDeps =>
     /\ Range(prog.installed) \cap Range(prog.failed) = {}
     /\ Range(prog.installed) \cup Range(prog.failed) = Range(Packages)
     /\ (Len(prog.failed) = 0) <=> (prog.installed = Packages)

\* C33, for a record that has its pythonPackages collection.
C33_WithCollections == CanAddPackage(log) => C33_OutcomePartition


\* installHomebrew has rejected: the installer script closed with a code
\* other than 0.
BootstrapFailed ==
  /\ pc = "exit" /\ why = "exception"
  /\ Op("runtime", "install homebrew", 0) \in did
  /\ Op("runtime", "brew update", 0) \notin did

\* installPythonViaHomebrew is over and python3.11 is not there: one of its
\* commands failed.
RuntimeInstallFailed ==
  /\ Op("runtime", "brew update", 0) \in did
  /\ pc \notin {"brewupdate", "brewpython", "brewlink"}
  /\ env.python = 0

ProvisioningFailed ==
  mode = "main" /\ platform = "darwin"
  /\ (BootstrapFailed \/ RuntimeInstallFailed)

\* C34: on darwin, once Homebrew's installer has failed or
\* installPythonViaHomebrew has returned false, the process is in what is
\* left of ensurePython or has exited with code 1, no operation of the
\* environment setup or of a later stage has been started, and the python
\* component of the log is as the constructor left it.
C34_FailedProvisioningIsFatal ==
  ProvisioningFailed =>
     /\ pc \in {"pip", "ensurepip", "exit"}
     /\ exitCode = (IF pc = "exit" THEN 1 ELSE -1)
     /\ \A op \in did : op.stage = "runtime"
     /\ log.comps.python = loaded.comps.python
     /\ prog.pythonCmd = "null"

\* C34 witness: the runtime install returned false and the process has
\* exited with code 1.
C34_Witness ==
  /\ mode = "main" /\ platform = "darwin" /\ RuntimeInstallFailed
  /\ pc = "exit" /\ exitCode = 1
  /\ Op("runtime", "ensurepip", 0) \in did

\* C34: the bootstrap has failed and the process has exited with code 1.
C34_BootstrapWitness ==
  mode = "main" /\ platform = "darwin" /\ BootstrapFailed /\ exitCode = 1

\* C34: after such a failure the process does end.
C34_Ends == ProvisioningFailed ~> (exitCode = 1)


\* C35: the timers of install() and of downloadWhisperModel that are active
\* are the one timer of the command being awaited, the spinner of the
\* package whose install is running or the ticker of the model download: at
\* most one is active, a package's spinner is gone before the next package
\* starts, and none is left when either stage has returned.
C35_TimersDoNotOutliveWork ==
  mode = "main" =>
     /\ Cardinality(prog.timers) <= 1
     /\ prog.timers =
          IF pc \in {"pipinstall", "model"} /\ CommandAt \in inflight
          THEN TimerAt(pc, prog.i) ELSE {}

\* C35 witness: a package's install has failed, the installs are over and
\* the only timer is the ticker of the model download.
C35_Witness ==
  /\ mode = "main" /\ pc = "model"
  /\ Len(prog.failed) > 0 /\ Len(prog.installed) > 0
  /\ prog.timers = {Op("model", "setInterval", 0)}

\* C35: the model download has failed and no timer is left.
C35_ModelFailed ==
  mode = "main" /\ pc = "shell" /\ "model" \in faulty /\ prog.timers = {}


\* C36: in a run of main(), a step that changes the fonts of the log is the
\* step of installFonts in which the font at hand, which had no file in the
\* cache, has had its regular variant copied there: the file is whole in
\* the cache when the entry is added, the entry is the only one that
\* changes and it names the cache path.  A font found in the cache gets no
\* entry and none of its entries changes.
C36_LoggedFontIsCached ==
  [][(mode = "main" /\ pc # "boot" /\ log'.fonts # log.fonts) =>
       /\ pc = "extract"
       /\ env.cache[prog.i] = "absent"
       /\ env'.cache[prog.i] = "fetched"
       /\ Op("fonts", "copy", prog.i) \in did'
       /\ log'.fonts = Upsert(log.fonts, Entry(FONTS[prog.i], "cache", now))]_vars

\* C36 witness: the second font was fetched and logged while the first,
\* found in the cache, has no entry.
C36_Witness ==
  /\ mode = "main" /\ pc = "pipinstall"
  /\ env0.cache = <<"cached", "absent">>
  /\ env.cache = <<"cached", "fetched">>
  /\ Names(log.fonts) = {FONTS[2]}

---------------------------------------------------------------------------
(* Properties of scripts/update-version.js.                                *)

\* The parts of s between its dots.
RECURSIVE Parts(_)
Parts(s) ==
  IF \E i \in 1..Len(s) : s[i] = "."
  THEN LET i == CHOOSE j \in 1..Len(s) :
                  s[j] = "." /\ \A h \in 1..(j - 1) : s[h] # "."
       IN <<SubSeq(s, 1, i - 1)>> \o Parts(SubSeq(s, i + 1, Len(s)))
  ELSE <<s>>

\* A decimal number: one digit or more.
Number(s) == Len(s) > 0 /\ \A i \in 1..Len(s) : s[i] \in Digits

\* The argument is there and is three decimal numbers with dots between.
ThreeNumbers(a) ==
  /\ a.given
  /\ Len(Parts(a.text)) = 3
  /\ \A i \in 1..3 : Number(Parts(a.text)[i])

Skipped(o) == o # "updated"

C37_Rejected ==
  /\ bump.pc = "exit" /\ bump.exitCode = 1
  /\ bump.arg.text = <<"1", ".", "1", ".", "1", ".">>

---------------------------------------------------------------------------
(* The working directory.                                                  *)

\* C38 as stated: when installNpmPackage has returned after it changed to
\* the package directory, the working directory is the one at entry.
C38_WorkingDirectoryRestored ==
  (AfterPrefix /\ Op("registration", "find package", 0) \in did) =>
     prog.cwd = "orig"

\* C38, for the two returns of the try block: the command paths were probed.
C38_RestoredAfterProbe ==
  (AfterPrefix /\ (prog.voxFound \/ "registration" \notin faulty)) =>
     prog.cwd = "orig"

====
